---- MODULE Spec2Model ----
(***************************************************************************)
(* Camera preview page (main.js), frame capture (camera-capture.js,        *)
(* ai-integration.js), the analyze handler (ai-integration.js,             *)
(* unnamed/part_002), the vision proxy (unnamed/part_000, part_001,        *)
(* part_005), the key test script (unnamed/part_006) and the RearCamera    *)
(* class (examples/rear-camera.js) of the mobile camera demo.              *)
(*                                                                         *)
(* src/main.js holds three copies of the page script (lines 1-153,         *)
(* 155-264 and 266-407); the model calls them "v1", "v2" and "v3" and a    *)
(* run is a run of one of them.  The page's DOM elements are taken to      *)
(* exist (getElementById never yields null).                               *)
(***************************************************************************)
EXTENDS Integers, Sequences, FiniteSets, TLC

\* ---------------------------------------------------------------- bounds
\* number of startCamera invocations in one run of the page
MaxInv == 3

\* ------------------------------------------------------------- constants
\* null, for currentStream and videoElement.srcObject
NoStream == 0

Variants == {"v1", "v2", "v3"}

\* CONFIG of main.js (lines 5-11 and 267-273); the copy at lines 155-264
\* has no CONFIG and starts with startCamera(true)
CONFIG ==
  [startWithRearCamera |-> TRUE, mirrorFrontCamera |-> TRUE,
   initTimeout |-> 500, fastStartup |-> FALSE, debug |-> TRUE]

\* error.message values getUserMedia rejects with; "" is an error without a
\* message (error.message || 'Could not access camera')
Reasons == {"Permission denied", ""}

\* the TypeError thrown by navigator.mediaDevices.getUserMedia when
\* navigator.mediaDevices is undefined
NoMediaDevices == "Cannot read properties of undefined"

\* no RearCamera has been constructed on this page
NotConstructed == [constructed |-> FALSE]

VARIABLES
  variant,          \* which copy of main.js runs
  supported,        \* navigator.mediaDevices && navigator.mediaDevices.getUserMedia
  timer,            \* the startup setTimeout: "armed", "fired" or "none"
  usingRearCamera,  \* let usingRearCamera
  currentStream,    \* let currentStream (a stream id, or NoStream)
  srcObject,        \* videoElement.srcObject
  mirrored,         \* videoElement.classList contains 'mirrored'
  status,           \* statusMessage: [text, type]
  retryDisplay,     \* retryButton.style.display
  switchDisplay,    \* switchCameraButton.style.display
  analyzeListeners, \* click listeners initAI has added to #analyze-btn
  streams,          \* every MediaStream getUserMedia has returned: [rear, live]
  inv,              \* the startCamera invocations, in the order they began
  videoWidth,       \* videoElement.videoWidth at the capture
  videoHeight,      \* videoElement.videoHeight at the capture
  captureModule,    \* which captureFrame is loaded
  captured,         \* what the last captureFrame gave: [kind, width, height]
  analyzeModule,    \* which initAI is loaded
  analyzeBtnDisabled, \* analyzeBtn.disabled
  aiResponse,       \* aiResponse.textContent
  runs,             \* the analyze click handlers that have run, in order
  imageLoad,        \* capturedImage: "none", "loading" (src set), "shown", "failed"
  mainVideoDisplay, \* mainVideo.style.display
  thumbnailSrcObject, \* thumbnailVideo.srcObject
  capturedImageSrc, \* capturedImage.src: the run whose object URL it is, or 0
  proxyModule,      \* which proxy handler is deployed
  reqs,             \* the requests the proxy has received, in order
  rearCamera        \* a RearCamera instance of examples/rear-camera.js

mainVars ==
  <<variant, supported, timer, usingRearCamera, currentStream, srcObject,
    mirrored, status, retryDisplay, switchDisplay, analyzeListeners, streams,
    inv>>

captureVars == <<videoWidth, videoHeight, captureModule, captured>>

analyzeVars ==
  <<analyzeModule, analyzeBtnDisabled, aiResponse, runs, imageLoad,
    mainVideoDisplay, thumbnailSrcObject, capturedImageSrc>>

proxyVars == <<proxyModule, reqs>>

vars ==
  <<variant, supported, timer, usingRearCamera, currentStream, srcObject,
    mirrored, status, retryDisplay, switchDisplay, analyzeListeners, streams,
    inv, videoWidth, videoHeight, captureModule, captured, analyzeModule,
    analyzeBtnDisabled, aiResponse, runs, imageLoad, mainVideoDisplay,
    thumbnailSrcObject, capturedImageSrc, proxyModule, reqs, rearCamera>>

\* ------------------------------------------------------------ page state
\* the page's mutable state as one value, so that the functions of main.js
\* are operators from page state to page state
Page ==
  [usingRearCamera |-> usingRearCamera, currentStream |-> currentStream,
   srcObject |-> srcObject, mirrored |-> mirrored, status |-> status,
   retryDisplay |-> retryDisplay, switchDisplay |-> switchDisplay,
   analyzeListeners |-> analyzeListeners, streams |-> streams]

SetPage(p) ==
  /\ usingRearCamera' = p.usingRearCamera
  /\ currentStream' = p.currentStream
  /\ srcObject' = p.srcObject
  /\ mirrored' = p.mirrored
  /\ status' = p.status
  /\ retryDisplay' = p.retryDisplay
  /\ switchDisplay' = p.switchDisplay
  /\ analyzeListeners' = p.analyzeListeners
  /\ streams' = p.streams

\* function updateStatus(message, type = 'info').  v1 (lines 24-40) shows
\* the status element for errors only and adds no class for success; v2
\* and v3 (lines 166-174, 286-294) set the class and leave style.display.
updateStatus(p, v, text, type) ==
  [p EXCEPT !.status =
     [text |-> text,
      type |-> type,
      className |-> IF type = "error" THEN "status error"
                    ELSE IF type = "success" /\ v # "v1" THEN "status success"
                    ELSE "status",
      display |-> IF v # "v1" THEN p.status.display
                  ELSE IF type = "error" THEN "block" ELSE "none"]]

\* track.stop() on every track of stream s
StopTracks(ss, s) == [ss EXCEPT ![s].live = FALSE]

\* function stopCurrentStream(), without track.stop()
stopCurrentStream_NoStop(p) ==
  IF p.currentStream # NoStream
  THEN [p EXCEPT !.srcObject = NoStream, !.currentStream = NoStream]
  ELSE p

\* function stopCurrentStream()
stopCurrentStream(p) ==
  IF p.currentStream # NoStream
  THEN [p EXCEPT !.streams = StopTracks(p.streams, p.currentStream),
                 !.srcObject = NoStream,
                 !.currentStream = NoStream]
  ELSE p

\* function updateMirroringState(isFrontCamera)
updateMirroringState(p, isFrontCamera) ==
  [p EXCEPT !.mirrored = (isFrontCamera /\ CONFIG.mirrorFrontCamera)]

\* the copies that hide the switch button while connecting (v2, v3); in v1
\* "Switch button is always visible in the new UI"
HidesSwitchButton(v) == v # "v1"

\* the copies that define and call updateMirroringState (v1, v3)
CallsUpdateMirroring(v) == v # "v2"

\* the copy that calls initAI(videoElement) once the camera is ready (v1)
CallsInitAI(v) == v = "v1"

\* the display value that shows the retry button
RetryShown(v) == IF v = "v1" THEN "block" ELSE "inline-block"

AccessingText(useRear) ==
  IF useRear THEN "Accessing rear camera..." ELSE "Accessing front camera..."

ActiveText(useRear) ==
  IF useRear THEN "Rear camera active" ELSE "Front camera active"

\* `Camera error: ${error.message || 'Could not access camera'}. Check ...`
ErrorText(message) ==
  <<"Camera error", IF message # "" THEN message ELSE "Could not access camera">>

\* the constraints of one getUserMedia attempt of startCamera(useRear)
Constraints(kind, useRear) ==
  [exact |-> (kind = "exact"),
   facingMode |-> IF useRear THEN "environment" ELSE "user"]

\* startCamera(useRear) up to its first getUserMedia call
startCameraBegin(p, v, useRear) ==
  LET p1 == stopCurrentStream(p)
      p2 == [p1 EXCEPT !.usingRearCamera = useRear]
      p3 == updateStatus(p2, v, AccessingText(useRear), "info")
      p4 == [p3 EXCEPT !.retryDisplay = "none"]
  IN  IF HidesSwitchButton(v) THEN [p4 EXCEPT !.switchDisplay = "none"] ELSE p4

\* the id of the stream the next resolved getUserMedia returns
NewStreamId(p) == Len(p.streams) + 1

\* startCamera(useRear) after a getUserMedia that resolved with a new stream
startCameraSuccess(p, v, useRear) ==
  LET s  == NewStreamId(p)
      p1 == [p EXCEPT !.streams = Append(p.streams, [rear |-> useRear, live |-> TRUE]),
                      !.currentStream = s,
                      !.srcObject = s]
      p2 == IF CallsUpdateMirroring(v) THEN updateMirroringState(p1, ~useRear) ELSE p1
      p3 == updateStatus(p2, v, ActiveText(useRear), "success")
  IN  IF CallsInitAI(v)
      THEN [p3 EXCEPT !.analyzeListeners = @ + 1]
      ELSE [p3 EXCEPT !.switchDisplay = "inline-block"]

\* the catch block of startCamera: every attempt failed, the last with `message`
startCameraFailure(p, v, message) ==
  LET p1 == updateStatus(p, v, ErrorText(message), "error")
      p2 == [p1 EXCEPT !.retryDisplay = RetryShown(v)]
  IN  IF HidesSwitchButton(v) THEN [p2 EXCEPT !.switchDisplay = "inline-block"] ELSE p2

\* what the page shows of the camera: the facing mode, the mirroring, the
\* status, the retry button, and the streams whose tracks are not stopped
Obs(p) ==
  [usingRearCamera |-> p.usingRearCamera,
   mirrored |-> p.mirrored,
   status |-> p.status,
   retryVisible |-> (p.retryDisplay # "none"),
   bound |-> (p.srcObject # NoStream),
   held |-> (p.currentStream # NoStream),
   live |-> Cardinality({s \in 1..Len(p.streams) : p.streams[s].live})]

\* the device's answer to one startCamera: which attempt resolves, or the
\* message of the last rejection
Behaviours ==
  {[result |-> r, message |-> "-"] : r \in {"exact", "relaxed"}}
    \cup {[result |-> "fail", message |-> m] : m \in Reasons}

\* async function startCamera(useRear), from its call to its completion,
\* with nothing else running in between
startCameraRun(p, v, useRear, beh) ==
  LET b == startCameraBegin(p, v, useRear)
  IN  IF beh.result = "fail"
      THEN startCameraFailure(b, v, beh.message)
      ELSE startCameraSuccess(b, v, useRear)

\* ----------------------------------------------------------- invocations
Pending(i) == inv[i].pc # "done"

NoObs == Obs([usingRearCamera |-> TRUE, currentStream |-> NoStream,
              srcObject |-> NoStream, mirrored |-> FALSE,
              status |-> [text |-> "-", type |-> "-", className |-> "-",
                         display |-> "-"],
              retryDisplay |-> "none",
              switchDisplay |-> "none", analyzeListeners |-> 0, streams |-> <<>>])

Attempt(kind, useRear, result) ==
  [kind |-> kind, constraints |-> Constraints(kind, useRear), result |-> result]

\* the attempt startCamera makes after the exact one rejected, naming the
\* other facing mode
RelaxedAttempt_OtherMode(useRear) == Attempt("relaxed", ~useRear, "pending")

\* lines 98-103: constraints.video = useRear ? {facingMode: 'environment'}
\* : {facingMode: 'user'}; getUserMedia(constraints)
RelaxedAttempt(useRear) == Attempt("relaxed", useRear, "pending")

\* the record of a startCamera(useRear) call that has run to its first
\* getUserMedia; p is the page before the call and b the page at the request
NewInvocation(p, b, useRear, trigger) ==
  [useRear |-> useRear,
   trigger |-> trigger,
   pc |-> "exact",
   outcome |-> "pending",
   attempts |-> <<Attempt("exact", useRear, "pending")>>,
   stream |-> NoStream,
   message |-> "-",
   \* the session the call found: the stream held, whether it was bound to
   \* the sink, and the facing mode it was requested with
   held |-> [stream |-> p.currentStream,
             bound |-> (p.srcObject # NoStream /\ p.srcObject = p.currentStream),
             rear |-> IF p.currentStream # NoStream
                      THEN p.streams[p.currentStream].rear ELSE TRUE,
             recordedRear |-> p.usingRearCamera],
   \* the page when the first getUserMedia request is issued
   atRequest |-> [currentStream |-> b.currentStream,
                  srcObject |-> b.srcObject,
                  heldLive |-> (p.currentStream # NoStream
                                /\ b.streams[p.currentStream].live)],
   quiet |-> (\A j \in 1..Len(inv) : ~Pending(j)),
   obs |-> NoObs]

SetResult(atts, result) == [atts EXCEPT ![Len(atts)].result = result]

\* startCamera(useRear), called by `trigger`, up to its first await.  Where
\* navigator.mediaDevices is undefined both getUserMedia calls throw at once
\* and the call runs through its catch block without waiting.
StartCamera(useRear, trigger) ==
  /\ Len(inv) < MaxInv
  /\ LET p   == Page
         b   == startCameraBegin(p, variant, useRear)
         rec == NewInvocation(p, b, useRear, trigger)
     IN  IF supported
         THEN /\ SetPage(b)
              /\ inv' = Append(inv, rec)
         ELSE LET f == startCameraFailure(b, variant, NoMediaDevices)
              IN  /\ SetPage(f)
                  /\ inv' = Append(inv,
                       [rec EXCEPT !.pc = "done", !.outcome = "failed",
                                   !.message = NoMediaDevices,
                                   !.attempts = <<Attempt("exact", useRear, "rejected"),
                                                  [RelaxedAttempt(useRear) EXCEPT
                                                     !.result = "rejected"]>>,
                                   !.obs = Obs(f)])

\* setTimeout(() => startCamera(CONFIG.startWithRearCamera), ...)
TimerFires ==
  /\ timer = "armed"
  /\ timer' = "fired"
  /\ StartCamera(CONFIG.startWithRearCamera, "timer")
  /\ UNCHANGED <<variant, supported>>
  /\ UNCHANGED <<captureVars, analyzeVars, proxyVars, rearCamera>>

\* switchCameraButton click: startCamera(!usingRearCamera)
SwitchClick ==
  /\ switchDisplay # "none"
  /\ StartCamera(~usingRearCamera, "switch")
  /\ UNCHANGED <<variant, supported, timer>>
  /\ UNCHANGED <<captureVars, analyzeVars, proxyVars, rearCamera>>

\* retryButton click: startCamera(usingRearCamera)
RetryClick ==
  /\ retryDisplay # "none"
  /\ StartCamera(usingRearCamera, "retry")
  /\ UNCHANGED <<variant, supported, timer>>
  /\ UNCHANGED <<captureVars, analyzeVars, proxyVars, rearCamera>>

\* a getUserMedia of invocation i resolves: lines 94/103, then 106-121
Resolve(i) ==
  LET s == startCameraSuccess(Page, variant, inv[i].useRear)
  IN  /\ SetPage(s)
      /\ inv' = [inv EXCEPT ![i].pc = "done", ![i].outcome = "ok",
                            ![i].attempts = SetResult(@, "resolved"),
                            ![i].stream = s.currentStream,
                            ![i].obs = Obs(s)]
      /\ UNCHANGED <<variant, supported, timer>>
  /\ UNCHANGED <<captureVars, analyzeVars, proxyVars, rearCamera>>

\* the exact-constraint getUserMedia of invocation i resolves
ExactResolves(i) ==
  /\ inv[i].pc = "exact"
  /\ Resolve(i)

\* the exact-constraint getUserMedia rejects: the relaxed one is requested
ExactRejects(i) ==
  /\ inv[i].pc = "exact"
  /\ inv' = [inv EXCEPT ![i].pc = "relaxed",
                        ![i].attempts = Append(SetResult(@, "rejected"),
                                               RelaxedAttempt(inv[i].useRear))]
  /\ UNCHANGED <<variant, supported, timer, usingRearCamera, currentStream,
                 srcObject, mirrored, status, retryDisplay, switchDisplay,
                 analyzeListeners, streams>>
  /\ UNCHANGED <<captureVars, analyzeVars, proxyVars, rearCamera>>

\* the relaxed getUserMedia of invocation i resolves
RelaxedResolves(i) ==
  /\ inv[i].pc = "relaxed"
  /\ Resolve(i)

\* the relaxed getUserMedia rejects with `message`: the catch block runs
RelaxedRejects(i, message) ==
  /\ inv[i].pc = "relaxed"
  /\ LET f == startCameraFailure(Page, variant, message)
     IN  /\ SetPage(f)
         /\ inv' = [inv EXCEPT ![i].pc = "done", ![i].outcome = "failed",
                               ![i].attempts = SetResult(@, "rejected"),
                               ![i].message = message,
                               ![i].obs = Obs(f)]
  /\ UNCHANGED <<variant, supported, timer>>
  /\ UNCHANGED <<captureVars, analyzeVars, proxyVars, rearCamera>>

\* the page as loaded: index.html and the top level of main.js
InitMain ==
  /\ variant \in Variants
  /\ supported \in BOOLEAN
  /\ timer = IF supported THEN "armed" ELSE "none"
  /\ usingRearCamera = CONFIG.startWithRearCamera
  /\ currentStream = NoStream
  /\ srcObject = NoStream
  /\ mirrored = FALSE
  /\ status = IF supported
              THEN [text |-> "Initializing camera... Please wait.", type |-> "info",
                    className |-> "status", display |-> ""]
              ELSE [text |-> "Camera API not supported in this browser.",
                    type |-> "error", className |-> "status error",
                    display |-> IF variant = "v1" THEN "block" ELSE ""]
  /\ retryDisplay = "none"
  /\ switchDisplay = "flex"
  /\ analyzeListeners = 0
  /\ streams = <<>>
  /\ inv = <<>>
  /\ videoWidth = 0
  /\ videoHeight = 0
  /\ captureModule = "camera-capture.js"
  /\ captured = [kind |-> "none", width |-> 0, height |-> 0,
                 srcWidth |-> 0, srcHeight |-> 0, startX2 |-> 0, startY2 |-> 0,
                 size |-> 0, leftEdge2 |-> 0, rightEdge2 |-> 0,
                 sinkMirrored |-> FALSE]
  /\ analyzeModule = "ai-integration.js"
  /\ analyzeBtnDisabled = FALSE
  /\ aiResponse = ""
  /\ runs = <<>>
  /\ imageLoad = "none"
  /\ mainVideoDisplay = "block"
  /\ thumbnailSrcObject = NoStream
  /\ capturedImageSrc = 0
  /\ proxyModule = "part_001"
  /\ reqs = <<>>
  /\ rearCamera = NotConstructed

\* the browser settles the getUserMedia request some invocation awaits
GetUserMediaExactResolves == \E i \in 1..Len(inv) : ExactResolves(i)
GetUserMediaExactRejects == \E i \in 1..Len(inv) : ExactRejects(i)
GetUserMediaRelaxedResolves == \E i \in 1..Len(inv) : RelaxedResolves(i)
GetUserMediaRelaxedRejects ==
  \E i \in 1..Len(inv), m \in Reasons : RelaxedRejects(i, m)

NextMain ==
  \/ TimerFires
  \/ SwitchClick
  \/ RetryClick
  \/ GetUserMediaExactResolves
  \/ GetUserMediaExactRejects
  \/ GetUserMediaRelaxedResolves
  \/ GetUserMediaRelaxedRejects

SpecMain == InitMain /\ [][NextMain]_vars

\* ------------------------------------------------------ claims on main.js
LiveStreams == {s \in 1..Len(streams) : streams[s].live}

\* the streams with live tracks that the page no longer refers to
Orphans(p) ==
  {s \in 1..Len(p.streams) : p.streams[s].live /\ s # p.currentStream}

FacingName(useRear) == IF useRear THEN "environment" ELSE "user"

\* C1: after any sequence of startCamera invocations (startup timer, switch
\* button, retry button, overlapping ones included) at most one stream that
\* getUserMedia returned has tracks that are not stopped.
C1_AtMostOneLiveStream == Cardinality(LiveStreams) <= 1

\* C2: a switch performed while a session with facing mode f is active, and
\* that completes successfully, yields a session of the opposite facing mode
\* and leaves every track of the original session's stream stopped.
C2_SwitchGivesOppositeFacing ==
  \A i \in 1..Len(inv) :
    (/\ inv[i].trigger = "switch"
     /\ inv[i].outcome = "ok"
     /\ inv[i].held.stream # NoStream
     /\ inv[i].held.bound)
    => /\ streams[inv[i].stream].rear = ~inv[i].held.rear
       /\ ~streams[inv[i].held.stream].live

\* C3: within one startCamera(useRear) the exact facingMode constraint is
\* requested first; the relaxed one is requested if and only if the exact
\* attempt rejected; both name the requested facing mode; and no attempt
\* follows one that resolved.
C3_AttemptOrder ==
  \A i \in 1..Len(inv) :
    LET a == inv[i].attempts
    IN  /\ Len(a) \in {1, 2}
        /\ a[1].kind = "exact"
        /\ a[1].constraints =
             [exact |-> TRUE, facingMode |-> FacingName(inv[i].useRear)]
        /\ (Len(a) = 2) <=> (a[1].result = "rejected")
        /\ Len(a) = 2 =>
             /\ a[2].kind = "relaxed"
             /\ a[2].constraints =
                  [exact |-> FALSE, facingMode |-> FacingName(inv[i].useRear)]
        /\ \A k \in 1..Len(a) : a[k].result = "resolved" => k = Len(a)
        /\ (inv[i].outcome = "ok") <=> (a[Len(a)].result = "resolved")
        /\ (inv[i].pc = "done") <=> (a[Len(a)].result # "pending")

\* C3 witness: an invocation whose exact attempt rejected and whose relaxed
\* attempt resolved
C3_Witness ==
  \E i \in 1..Len(inv) :
    /\ Len(inv[i].attempts) = 2
    /\ inv[i].attempts[2].result = "resolved"

\* C4: when every attempt of a startCamera invocation fails, the invocation
\* ends with an error status carrying the reported reason, the retry button
\* visible, currentStream null and no stream bound to the sink.
C4_FailureLeavesNoSession ==
  \A i \in 1..Len(inv) :
    inv[i].outcome = "failed"
    => /\ inv[i].obs.status.type = "error"
       /\ inv[i].obs.status.text = ErrorText(inv[i].message)
       /\ inv[i].obs.retryVisible
       /\ ~inv[i].obs.held
       /\ ~inv[i].obs.bound

\* C5: when a switch fails to acquire the opposite facing mode, the previous
\* facing mode is requested again exactly once before the failure is
\* reported.
C5_FailedSwitchRetriesPrevious ==
  \A i \in 1..Len(inv) :
    (inv[i].trigger = "switch" /\ inv[i].outcome = "failed")
    => Cardinality({k \in 1..Len(inv[i].attempts) :
         inv[i].attempts[k].constraints.facingMode
           = FacingName(inv[i].held.recordedRear)}) = 1

\* C6: whenever a stream is bound to the sink, the sink carries the
\* 'mirrored' class if and only if that session's facing mode is front and
\* CONFIG.mirrorFrontCamera is true.
C6_MirroredIffFront ==
  srcObject # NoStream
  => (mirrored <=> (~streams[srcObject].rear /\ CONFIG.mirrorFrontCamera))

\* C7: within a startCamera invocation every track of the stream held
\* before it is stopped, and currentStream and the sink binding are cleared,
\* before the invocation's first getUserMedia request is issued.
C7_ReleasedBeforeFirstRequest ==
  \A i \in 1..Len(inv) :
    /\ inv[i].atRequest.currentStream = NoStream
    /\ inv[i].atRequest.srcObject = NoStream
    /\ ~inv[i].atRequest.heldLive
    /\ inv[i].held.stream # NoStream => ~streams[inv[i].held.stream].live

\* C7 witness: an invocation that began while a stream was held and bound
\* and that has issued its request
C7_Witness ==
  \E i \in 1..Len(inv) :
    /\ inv[i].held.stream # NoStream
    /\ inv[i].held.bound
    /\ inv[i].attempts[1].result = "pending"

\* two invocations in a row, each run alone from its call to its completion
BackToBack(i) ==
  /\ i + 1 <= Len(inv)
  /\ inv[i].pc = "done" /\ inv[i + 1].pc = "done"
  /\ inv[i].quiet /\ inv[i + 1].quiet
  /\ i + 2 <= Len(inv) => inv[i + 2].quiet

\* the same call answered by the same device behaviour
SameRun(i, j) ==
  /\ inv[i].useRear = inv[j].useRear
  /\ inv[i].outcome = inv[j].outcome
  /\ inv[i].message = inv[j].message
  /\ Len(inv[i].attempts) = Len(inv[j].attempts)

\* Running startCamera(f) twice in a row leaves what running it once leaves,
\* from every reachable page state: the same facing mode, mirroring, status
\* and retry-button visibility and the same live streams, to which the runs
\* add exactly the held one on success and none on failure.  Streams that
\* were live and unreferenced before the runs stay so.
TwiceLeavesWhatOnceLeaves ==
  \A f \in BOOLEAN, b \in Behaviours :
    LET p1 == startCameraRun(Page, variant, f, b)
        p2 == startCameraRun(p1, variant, f, b)
        ok == b.result # "fail"
    IN  /\ Obs(p2) = Obs(p1)
        /\ Orphans(p2) = Orphans(Page)
        /\ Obs(p2).live = Cardinality(Orphans(Page)) + (IF ok THEN 1 ELSE 0)
        /\ ok => /\ p2.currentStream # NoStream
                 /\ p2.srcObject = p2.currentStream
                 /\ p2.streams[p2.currentStream].live
                 /\ p2.usingRearCamera = f
        /\ ~ok => p2.currentStream = NoStream /\ p2.srcObject = NoStream

\* C8: startCamera(f) run to completion twice in a row under the same device
\* behaviour leaves the observable state that running it once leaves: the
\* same facing mode, mirroring, status and retry-button visibility, exactly
\* one live stream when it succeeds and none when it fails.  Stated of the
\* function from every reachable page state, and of every two such runs the
\* page has made.
C8_Idempotent ==
  /\ \A f \in BOOLEAN, b \in Behaviours :
       LET p1 == startCameraRun(Page, variant, f, b)
           p2 == startCameraRun(p1, variant, f, b)
       IN  /\ Obs(p2) = Obs(p1)
           /\ Obs(p2).usingRearCamera = f
           /\ Obs(p2).live = (IF b.result # "fail" THEN 1 ELSE 0)
  /\ \A i \in 1..Len(inv) :
       (BackToBack(i) /\ SameRun(i, i + 1)) => inv[i + 1].obs = inv[i].obs

\* ---------------------------------------------------------- frame capture
\* CAPTURE_CONFIG.maxWidth (camera-capture.js) and AI_CONFIG.vision.maxWidth
\* (ai-integration.js, unnamed/part_002)
maxWidth == 800

\* intrinsic widths and heights a video element reports once a frame has
\* decoded; before that videoWidth and videoHeight are 0
Dims == {480, 640, 720, 799, 800, 801, 1080, 1920}

\* values of maxWidth the sizing rule is evaluated for besides the configured
MaxWidthChoices == {1, 480, 800, 1000, 2000}

\* the files that define a captureFrame: the two that crop a centred square
\* and the one that keeps the whole frame
SquareModules == {"camera-capture.js", "part_002"}
CaptureModules == SquareModules \cup {"ai-integration.js"}

Min(a, b) == IF a < b THEN a ELSE b

\* leftEdge2 and rightEdge2 are twice the x-coordinates of the source frame
\* that drawImage puts at the left and at the right edge of the canvas;
\* sinkMirrored is whether the video carried the 'mirrored' class
NoCapture == [kind |-> "none", width |-> 0, height |-> 0,
              srcWidth |-> 0, srcHeight |-> 0, startX2 |-> 0, startY2 |-> 0,
              size |-> 0, leftEdge2 |-> 0, rightEdge2 |-> 0,
              sinkMirrored |-> FALSE]

\* the side of the square canvas, taking the frame's width for its smaller side
targetSize_OfWidth(width, height, mw) == IF width > mw THEN mw ELSE width

\* const size = Math.min(width, height);
\* const targetSize = size > maxWidth ? maxWidth : size;
targetSize(width, height, mw) ==
  LET size == Min(width, height)
  IN  IF size > mw THEN mw ELSE size

\* a captureFrame that would take the square from the frame's top left corner
captureFrameSquare_TopLeft(width, height) ==
  IF width = 0 \/ height = 0
  THEN [NoCapture EXCEPT !.kind = "null"]
  ELSE LET size == Min(width, height)
           t    == targetSize(width, height, maxWidth)
       IN  [kind |-> "blob", width |-> t, height |-> t,
            srcWidth |-> width, srcHeight |-> height,
            startX2 |-> 0, startY2 |-> 0, size |-> size,
            leftEdge2 |-> 0, rightEdge2 |-> 2 * size,
            sinkMirrored |-> FALSE]

\* captureFrame of camera-capture.js (lines 22-82) and of unnamed/part_002
\* (lines 21-68): a centred square crop, scaled down to maxWidth.  startX
\* and startY may be halves, so the record holds twice their value.
\* camera-capture.js reads window.cameraState.isMirrored (lines 55-59) and
\* logs it; drawImage is called on an untransformed context in both files,
\* so the crop's left edge lands on the canvas's left edge.
captureFrameSquare(width, height) ==
  IF width = 0 \/ height = 0
  THEN [NoCapture EXCEPT !.kind = "null"]
  ELSE LET size == Min(width, height)
           t    == targetSize(width, height, maxWidth)
           \* centerX = width / 2, centerY = height / 2, doubled
           centerX2 == width
           centerY2 == height
       IN  [kind |-> "blob", width |-> t, height |-> t,
            srcWidth |-> width, srcHeight |-> height,
            \* startX = centerX - (size / 2), startY = centerY - (size / 2)
            startX2 |-> centerX2 - size, startY2 |-> centerY2 - size,
            size |-> size,
            leftEdge2 |-> width - size, rightEdge2 |-> width + size,
            sinkMirrored |-> FALSE]

\* captureFrame of ai-integration.js (lines 21-50 and 178-207): the whole
\* frame, scaled to maxWidth wide with its aspect ratio kept; canvas.height
\* takes the integer part of height * (maxWidth / width)
captureFrameFull(width, height) ==
  IF width = 0 \/ height = 0
  THEN [NoCapture EXCEPT !.kind = "null"]
  ELSE [kind |-> "dataURL",
        width |-> IF width > maxWidth THEN maxWidth ELSE width,
        height |-> IF width > maxWidth THEN (height * maxWidth) \div width ELSE height,
        srcWidth |-> width, srcHeight |-> height,
        startX2 |-> 0, startY2 |-> 0, size |-> 0,
        leftEdge2 |-> 0, rightEdge2 |-> 2 * width, sinkMirrored |-> FALSE]

\* captureFrame without the `if (!width || !height) return null` guard
captureFrame_NoGuard(module, width, height) ==
  [kind |-> IF module \in SquareModules THEN "blob" ELSE "dataURL",
   width |-> Min(width, height), height |-> Min(width, height),
   srcWidth |-> width, srcHeight |-> height, startX2 |-> 0, startY2 |-> 0,
   size |-> Min(width, height), leftEdge2 |-> 0, rightEdge2 |-> 2 * width,
   sinkMirrored |-> FALSE]

captureFrame(module, width, height) ==
  IF module \in SquareModules
  THEN captureFrameSquare(width, height)
  ELSE captureFrameFull(width, height)

\* the video element decodes a frame of a stream: its intrinsic size is known
LoadedMetadata(w, h) ==
  /\ videoWidth' = w
  /\ videoHeight' = h
  /\ UNCHANGED <<captureModule, captured>>
  /\ UNCHANGED <<mainVars, analyzeVars, proxyVars, rearCamera>>

\* the sink loses its stream (srcObject = null): no intrinsic size
VideoEmptied ==
  /\ videoWidth # 0
  /\ videoWidth' = 0
  /\ videoHeight' = 0
  /\ UNCHANGED <<captureModule, captured>>
  /\ UNCHANGED <<mainVars, analyzeVars, proxyVars, rearCamera>>

\* A click handler calls captureFrame(videoElement); one call is followed
\* at a time.  The captureFrame of ai-integration.js returns its data URL;
\* the square ones have drawn the canvas and wait for canvas.toBlob.
CaptureFrame ==
  /\ captured.kind # "encoding"
  /\ LET c == captureFrame(captureModule, videoWidth, videoHeight)
     IN  captured' = [c EXCEPT !.sinkMirrored = mirrored,
                               !.kind = IF @ = "blob" THEN "encoding" ELSE @]
  /\ UNCHANGED <<videoWidth, videoHeight, captureModule>>
  /\ UNCHANGED <<mainVars, analyzeVars, proxyVars, rearCamera>>

\* canvas.toBlob calls back, with a blob or with null.  part_002 lines
\* 61-67: (blob) => resolve(blob).  camera-capture.js lines 72-81: the
\* callback reads blob.size before resolve(blob); on null that throws a
\* TypeError in the callback and the promise is never settled.
CanvasToBlob(hasBlob) ==
  /\ captured.kind = "encoding"
  /\ captured' = [captured EXCEPT !.kind =
                    IF hasBlob THEN "blob"
                    ELSE IF captureModule = "part_002" THEN "null"
                    ELSE "unsettled"]
  /\ UNCHANGED <<videoWidth, videoHeight, captureModule>>
  /\ UNCHANGED <<mainVars, analyzeVars, proxyVars, rearCamera>>

\* the page of main.js lines 1-153 before startup
LoadedPage ==
  [usingRearCamera |-> CONFIG.startWithRearCamera, currentStream |-> NoStream,
   srcObject |-> NoStream, mirrored |-> FALSE,
   status |-> [text |-> "Initializing camera... Please wait.", type |-> "info",
               className |-> "status", display |-> ""],
   retryDisplay |-> "none", switchDisplay |-> "flex", analyzeListeners |-> 0,
   streams |-> <<>>]

\* the page once the startup startCamera has resolved, and once a tap on
\* the switch button after that has resolved too
RearPage ==
  startCameraRun(LoadedPage, "v1", CONFIG.startWithRearCamera,
                 [result |-> "exact", message |-> "-"])
FrontPage ==
  startCameraRun(RearPage, "v1", ~RearPage.usingRearCamera,
                 [result |-> "exact", message |-> "-"])

\* the page of v1 with a camera session, rear or front, one of the capture
\* modules loaded and no frame decoded yet
InitCapture ==
  /\ variant = "v1"
  /\ supported = TRUE
  /\ timer = "fired"
  /\ \E p \in {RearPage, FrontPage} :
       /\ usingRearCamera = p.usingRearCamera
       /\ currentStream = p.currentStream
       /\ srcObject = p.srcObject
       /\ mirrored = p.mirrored
       /\ status = p.status
       /\ retryDisplay = p.retryDisplay
       /\ switchDisplay = p.switchDisplay
       /\ analyzeListeners = p.analyzeListeners
       /\ streams = p.streams
  /\ inv = <<>>
  /\ videoWidth = 0
  /\ videoHeight = 0
  /\ captureModule \in CaptureModules
  /\ captured = NoCapture
  /\ analyzeModule = "ai-integration.js"
  /\ analyzeBtnDisabled = FALSE
  /\ aiResponse = ""
  /\ runs = <<>>
  /\ imageLoad = "none"
  /\ mainVideoDisplay = "block"
  /\ thumbnailSrcObject = NoStream
  /\ capturedImageSrc = 0
  /\ proxyModule = "part_001"
  /\ reqs = <<>>
  /\ rearCamera = NotConstructed

VideoLoadsMetadata == \E w \in Dims, h \in Dims : LoadedMetadata(w, h)

CanvasEncoderCallsBack == \E b \in BOOLEAN : CanvasToBlob(b)

NextCapture ==
  \/ VideoLoadsMetadata
  \/ VideoEmptied
  \/ CaptureFrame
  \/ CanvasEncoderCallsBack

SpecCapture == InitCapture /\ [][NextCapture]_vars

\* the canvas encoder does call back
SpecCaptureLive == SpecCapture /\ WF_vars(CanvasEncoderCallsBack)

\* C9: for every pair of non-zero intrinsic dimensions, non-square ones
\* included, the image capture produces is as wide as it is high.
C9_CaptureIsSquare ==
  captured.kind \in {"blob", "dataURL"} => captured.width = captured.height

\* C10: for non-zero intrinsic dimensions (w, h) and the configured maxWidth
\* the output size of the square capture is min(w, h) when min(w, h) <=
\* maxWidth and maxWidth otherwise, and is never larger than min(w, h); the
\* sizing rule gives the same for every other maxWidth.
C10_ScalesDownNeverUp ==
  /\ (captureModule \in SquareModules /\ captured.kind = "blob")
     => LET m == Min(captured.srcWidth, captured.srcHeight)
        IN  /\ captured.width = (IF m <= maxWidth THEN m ELSE maxWidth)
            /\ captured.height = captured.width
            /\ captured.width <= m
  /\ (videoWidth # 0 /\ videoHeight # 0)
     => \A mw \in MaxWidthChoices \cup {maxWidth} :
          LET m == Min(videoWidth, videoHeight)
              t == targetSize(videoWidth, videoHeight, mw)
          IN  /\ t = (IF m <= mw THEN m ELSE mw)
              /\ t <= m

\* C10 witness: a square capture of a frame wider than high whose smaller
\* side exceeds maxWidth, scaled down to maxWidth
C10_Witness ==
  /\ captureModule \in SquareModules
  /\ captured.kind = "blob"
  /\ captured.srcWidth > captured.srcHeight
  /\ captured.srcHeight > maxWidth
  /\ captured.width = maxWidth

\* the encoded image is the horizontal flip of the frame's crop: the
\* crop's right edge is at the image's left edge
Flipped(c) == c.leftEdge2 > c.rightEdge2

\* C12: the image captureFrame of camera-capture.js encodes is horizontally
\* flipped if and only if the sink was mirrored (front camera, mirroring
\* configured on) when it was captured.
C12_FlippedIffMirrored ==
  (captureModule = "camera-capture.js" /\ captured.kind = "blob")
  => (Flipped(captured) <=> captured.sinkMirrored)

\* C13: every capture call made with non-zero dimensions settles, with an
\* encoded image or with a failure the caller sees; when the encoder yields
\* no blob the call does not stay pending.
C13_CaptureSettles ==
  [](captured.kind = "encoding"
     => <>(captured.kind \in {"blob", "dataURL", "null"}))

\* ------------------------------------------------------- analyze handler
\* handler invocations followed in one run of the page
MaxRuns == 2

\* startCamera calls in a run of the page that is followed for its analyses
MaxStarts == 2

\* the files that define initAI: ai-integration.js lines 1-157, its older
\* copy at lines 159-275, and unnamed/part_002
AnalyzeModules == {"ai-integration.js", "ai-integration.js/older", "part_002"}

\* the captureFrame an initAI calls is the one of its own file
CaptureModuleOf(m) == IF m = "part_002" THEN "part_002" ELSE "ai-integration.js"

AnalyzingText == "Analyzing image..."
UnableText == "Error: Unable to capture image from camera."
Sentinel == "No analysis text returned from the server."

\* a property that an object does not have
Undefined == "undefined"

\* JavaScript truthiness of a string-or-undefined value
Truthy(x) == x # "" /\ x # Undefined

\* a || b
Or(a, b) == IF Truthy(a) THEN a ELSE b

\* The JSON value a response parses to: null, or an object with the
\* properties modalities, primary, text and result, each of which may be
\* missing.  modalities is <<>> when missing and <<m>> when present, m being
\* the set of [key, content] entries of the object.
Contents == {"Y", "", Undefined}
ModalityObjects ==
  {{}} \cup {{[key |-> "text", content |-> c]} : c \in Contents}
Bodies ==
  [null : {FALSE},
   modalities : {<<>>} \cup {<<m>> : m \in ModalityObjects},
   primary : {Undefined, "text", "voice"},
   text : {Undefined, "", "X"},
   result : {Undefined, "", "R"}]
  \cup {[null |-> TRUE, modalities |-> <<>>, primary |-> Undefined,
         text |-> Undefined, result |-> Undefined]}

NoBody == [null |-> TRUE, modalities |-> <<>>, primary |-> Undefined,
           text |-> Undefined, result |-> Undefined]

\* result.modalities[key] is an object
HasModality(result, key) ==
  /\ result.modalities # <<>>
  /\ \E e \in result.modalities[1] : e.key = key

\* result.modalities[key].content
ContentOf(result, key) ==
  (CHOOSE e \in result.modalities[1] : e.key = key).content

\* reading a property of null throws a TypeError
NullTypeError == "Error: Cannot read properties of null"

\* part_002 lines 256-274: the text the handler puts in aiResponse for a
\* parsed response
displayText_part_002(result) ==
  IF result.null THEN NullTypeError
  ELSE LET analysisText ==
             IF /\ result.modalities # <<>>
                /\ Truthy(result.primary)
                /\ HasModality(result, result.primary)
             THEN Or(ContentOf(result, result.primary), "")
             ELSE IF Truthy(result.text) THEN result.text ELSE ""
       IN  Or(analysisText, Sentinel)

\* ai-integration.js line 144:
\* aiResponse.textContent = result.text || 'No analysis text returned ...'
displayText_ai(result) ==
  IF result.null THEN NullTypeError ELSE Or(result.text, Sentinel)

\* ai-integration.js line 264: aiResponse.textContent = result.text;
\* assigning undefined to textContent empties the element
displayText_older(result) ==
  IF result.null THEN NullTypeError
  ELSE IF result.text = Undefined THEN "" ELSE result.text

displayText(module, result) ==
  IF module = "part_002" THEN displayText_part_002(result)
  ELSE IF module = "ai-integration.js" THEN displayText_ai(result)
  ELSE displayText_older(result)

\* How a fetch of analyzeImage ends: a 2xx response with a parsed body, a
\* non-2xx response (the proxy answers 500 both when its call to the remote
\* model timed out and when the remote model failed, 400 for a bad upload),
\* a rejected fetch, or a 2xx body that response.json() cannot parse.
HttpFailures ==
  {[kind |-> "http", status |-> 500, cause |-> "timeout", body |-> NoBody],
   [kind |-> "http", status |-> 500, cause |-> "remote", body |-> NoBody],
   [kind |-> "http", status |-> 400, cause |-> "input", body |-> NoBody]}

OtherFailures ==
  {[kind |-> "network", status |-> 0, cause |-> "network", body |-> NoBody],
   [kind |-> "badjson", status |-> 200, cause |-> "json", body |-> NoBody]}

OkOutcome(b) == [kind |-> "ok", status |-> 200, cause |-> "-", body |-> b]

AllOutcomes == {OkOutcome(b) : b \in Bodies} \cup HttpFailures \cup OtherFailures

\* the outcomes followed where several handlers run
Outcomes ==
  {OkOutcome([NoBody EXCEPT !.null = FALSE, !.text = "X"])}
    \cup {o \in HttpFailures : o.status = 500}
    \cup {o \in OtherFailures : o.kind = "network"}

NoOutcome == [kind |-> "-", status |-> 0, cause |-> "-", body |-> NoBody]

\* `Server returned ${response.status}: ${response.statusText}`
ServerReturned(code) ==
  IF code = 500 THEN "Error: Server returned 500: Internal Server Error"
  ELSE "Error: Server returned 400: Bad Request"

\* what the handler leaves in aiResponse once its fetch has ended:
\* the normalized text, or `Error: ${error.message}` from its catch block
shownText(module, o) ==
  IF o.kind = "ok" THEN displayText(module, o.body)
  ELSE IF o.kind = "http" THEN ServerReturned(o.status)
  ELSE IF o.kind = "network" THEN "Error: Failed to fetch"
  ELSE "Error: Unexpected token in JSON"

\* one invocation of the analyze click handler: the listener that ran, the
\* intrinsic size it found, what its capture gave, where it waits, whether
\* it drew a frame and sent an upload, how its fetch ended, and the text and
\* the button state it left when it ended
NewRun(k, width, height) ==
  [listener |-> k, width |-> width, height |-> height, capture |-> "-",
   pc |-> "start", drawn |-> FALSE, sent |-> FALSE, outcome |-> NoOutcome,
   shown |-> "-", disabledAfter |-> TRUE, url |-> "none"]

\* The click handler of listener k, from the click to its first wait, on
\* h = [btn, text, runs].  ai-integration.js lines 103-139 and 190-206:
\* captureFrame is synchronous, the fetch is sent in the same turn.
\* part_002 lines 198-214: captureFrame is awaited; with no dimensions it
\* resolves null at once and the handler ends before any other event, else
\* the handler waits for canvas.toBlob.
analyzeClickHandler(h, module, k, width, height) ==
  LET c == captureFrame(CaptureModuleOf(module), width, height)
      r == NewRun(k, width, height)
  IN  IF c.kind = "null"
      THEN [btn |-> FALSE, text |-> UnableText,
            runs |-> Append(h.runs,
                       [r EXCEPT !.capture = "null", !.pc = "done",
                                 !.shown = UnableText, !.disabledAfter = FALSE])]
      ELSE IF module = "part_002"
      THEN [btn |-> TRUE, text |-> AnalyzingText,
            runs |-> Append(h.runs,
                       [r EXCEPT !.capture = "encoding", !.pc = "encoding",
                                 !.drawn = TRUE])]
      ELSE [btn |-> TRUE, text |-> AnalyzingText,
            runs |-> Append(h.runs,
                       [r EXCEPT !.capture = "dataURL", !.pc = "fetching",
                                 !.drawn = TRUE, !.sent = TRUE])]

\* a click on #analyze-btn runs the listeners initAI has added, in the order
\* they were added; the button's disabled state is looked at once, when the
\* click is dispatched
RECURSIVE dispatchClick(_, _, _, _, _, _)
dispatchClick(h, module, k, n, width, height) ==
  IF k > n THEN h
  ELSE dispatchClick(analyzeClickHandler(h, module, k, width, height),
                     module, k + 1, n, width, height)

\* the user clicks the analyze button (a disabled button gets no click)
AnalyzeClick ==
  /\ ~analyzeBtnDisabled
  /\ analyzeListeners > 0
  /\ Len(runs) + analyzeListeners <= MaxRuns
  /\ LET h == dispatchClick([btn |-> analyzeBtnDisabled, text |-> aiResponse,
                             runs |-> runs],
                            analyzeModule, 1, analyzeListeners,
                            videoWidth, videoHeight)
     IN  /\ analyzeBtnDisabled' = h.btn
         /\ aiResponse' = h.text
         /\ runs' = h.runs
  /\ UNCHANGED <<analyzeModule, imageLoad, mainVideoDisplay, thumbnailSrcObject,
                 capturedImageSrc>>
  /\ UNCHANGED <<mainVars, captureVars, proxyVars, rearCamera>>

\* part_002 lines 207-252: canvas.toBlob calls back for run i.  With no blob
\* the handler reports the capture failure and ends; with a blob it sets
\* capturedImage.src to an object URL and sends the upload.
ToBlobCallback(i, hasBlob) ==
  /\ runs[i].pc = "encoding"
  /\ IF hasBlob
     THEN /\ runs' = [runs EXCEPT ![i].capture = "blob", ![i].pc = "fetching",
                                  ![i].sent = TRUE, ![i].url = "live"]
          /\ imageLoad' = "loading"
          /\ capturedImageSrc' = i
          /\ UNCHANGED <<analyzeBtnDisabled, aiResponse>>
     ELSE /\ runs' = [runs EXCEPT ![i].capture = "noblob", ![i].pc = "done",
                                  ![i].shown = UnableText,
                                  ![i].disabledAfter = FALSE]
          /\ aiResponse' = UnableText
          /\ analyzeBtnDisabled' = FALSE
          /\ UNCHANGED <<imageLoad, capturedImageSrc>>
  /\ UNCHANGED <<analyzeModule, mainVideoDisplay, thumbnailSrcObject>>
  /\ UNCHANGED <<mainVars, captureVars, proxyVars, rearCamera>>

\* capturedImage.onload moving the live stream from the main video to the
\* thumbnail
thumbnailSwitcheroo_MovesStream(v) ==
  [v EXCEPT !.mainVideoDisplay = "none",
            !.thumbnailSrcObject = v.srcObject,
            !.srcObject = NoStream]

\* part_002 lines 229-245, capturedImage.onload: the still image replaces
\* the main video and the thumbnail video is given the main video's stream
thumbnailSwitcheroo(v) ==
  [v EXCEPT !.mainVideoDisplay = "none",
            !.thumbnailSrcObject =
               IF v.thumbnailSrcObject # v.srcObject THEN v.srcObject ELSE @]

\* part_002 lines 229-245: the captured image has loaded and onload runs;
\* its last statement is URL.revokeObjectURL(capturedImage.src)
ImageLoads ==
  /\ imageLoad = "loading"
  /\ LET v == thumbnailSwitcheroo([srcObject |-> srcObject,
                                   thumbnailSrcObject |-> thumbnailSrcObject,
                                   mainVideoDisplay |-> mainVideoDisplay])
     IN  /\ srcObject' = v.srcObject
         /\ thumbnailSrcObject' = v.thumbnailSrcObject
         /\ mainVideoDisplay' = v.mainVideoDisplay
  /\ imageLoad' = "shown"
  /\ runs' = [runs EXCEPT ![capturedImageSrc].url = "revoked"]
  /\ UNCHANGED <<analyzeModule, analyzeBtnDisabled, aiResponse, capturedImageSrc>>
  /\ UNCHANGED <<variant, supported, timer, usingRearCamera, currentStream,
                 mirrored, status, retryDisplay, switchDisplay,
                 analyzeListeners, streams, inv>>
  /\ UNCHANGED <<captureVars, proxyVars, rearCamera>>

\* The captured image does not load: the error event has no listener (only
\* onload is set, part_002 line 229), so nothing runs.
ImageFails ==
  /\ imageLoad = "loading"
  /\ imageLoad' = "failed"
  /\ UNCHANGED <<analyzeModule, analyzeBtnDisabled, aiResponse, runs,
                 mainVideoDisplay, thumbnailSrcObject, capturedImageSrc>>
  /\ UNCHANGED <<mainVars, captureVars, proxyVars, rearCamera>>

\* the fetch of run i ends with outcome o: the handler shows the normalized
\* text or the error and, in its finally block, enables the button
FetchSettles(i, o) ==
  /\ runs[i].pc = "fetching"
  /\ LET t == shownText(analyzeModule, o)
     IN  /\ runs' = [runs EXCEPT ![i].pc = "done", ![i].outcome = o,
                                 ![i].shown = t, ![i].disabledAfter = FALSE]
         /\ aiResponse' = t
  /\ analyzeBtnDisabled' = FALSE
  /\ UNCHANGED <<analyzeModule, imageLoad, mainVideoDisplay, thumbnailSrcObject,
                 capturedImageSrc>>
  /\ UNCHANGED <<mainVars, captureVars, proxyVars, rearCamera>>

\* startCamera(useRear) called and run to its end with the device answering
\* beh; the sink has no intrinsic size until a frame of the new stream decodes
StartCameraCompletes(useRear, beh) ==
  /\ Len(streams) < MaxStarts
  /\ SetPage(startCameraRun(Page, variant, useRear, beh))
  /\ videoWidth' = 0
  /\ videoHeight' = 0
  /\ UNCHANGED <<variant, supported, inv, captureModule, captured>>
  /\ UNCHANGED <<analyzeVars, proxyVars, rearCamera>>

StartupCompletes ==
  /\ timer = "armed"
  /\ timer' = "fired"
  /\ \E beh \in Behaviours : StartCameraCompletes(CONFIG.startWithRearCamera, beh)

SwitchCompletes ==
  /\ timer = "fired"
  /\ switchDisplay # "none"
  /\ UNCHANGED timer
  /\ \E beh \in Behaviours : StartCameraCompletes(~usingRearCamera, beh)

RetryCompletes ==
  /\ retryDisplay # "none"
  /\ UNCHANGED timer
  /\ \E beh \in Behaviours : StartCameraCompletes(usingRearCamera, beh)

\* the size of the first decoded frame of a stream
AnalyzeDims == {<<640, 480>>}

FrameDecodes ==
  /\ srcObject # NoStream
  /\ videoWidth = 0
  /\ \E d \in AnalyzeDims : LoadedMetadata(d[1], d[2])

CanvasEncodes == \E i \in 1..Len(runs), b \in BOOLEAN : ToBlobCallback(i, b)

ResponseArrives == \E i \in 1..Len(runs), o \in Outcomes : FetchSettles(i, o)

\* the page of v1 as loaded, with one of the initAI files
InitAnalyze ==
  /\ variant = "v1"
  /\ supported = TRUE
  /\ timer = "armed"
  /\ usingRearCamera = CONFIG.startWithRearCamera
  /\ currentStream = NoStream
  /\ srcObject = NoStream
  /\ mirrored = FALSE
  /\ status = [text |-> "Initializing camera... Please wait.", type |-> "info",
               className |-> "status", display |-> ""]
  /\ retryDisplay = "none"
  /\ switchDisplay = "flex"
  /\ analyzeListeners = 0
  /\ streams = <<>>
  /\ inv = <<>>
  /\ videoWidth = 0
  /\ videoHeight = 0
  /\ analyzeModule \in AnalyzeModules
  /\ captureModule = CaptureModuleOf(analyzeModule)
  /\ captured = NoCapture
  /\ analyzeBtnDisabled = FALSE
  /\ aiResponse = ""
  /\ runs = <<>>
  /\ imageLoad = "none"
  /\ mainVideoDisplay = "block"
  /\ thumbnailSrcObject = NoStream
  /\ capturedImageSrc = 0
  /\ proxyModule = "part_001"
  /\ reqs = <<>>
  /\ rearCamera = NotConstructed

NextAnalyze ==
  \/ StartupCompletes
  \/ SwitchCompletes
  \/ RetryCompletes
  \/ FrameDecodes
  \/ AnalyzeClick
  \/ CanvasEncodes
  \/ ImageLoads
  \/ ImageFails
  \/ ResponseArrives

SpecAnalyze == InitAnalyze /\ [][NextAnalyze]_vars

\* The browser does run the callbacks it owes the page: canvas.toBlob calls
\* back and the image whose src was set loads.  Nothing in the client makes
\* a fetch end: analyzeImage passes no AbortSignal and sets no timer.
SpecAnalyzeLive ==
  SpecAnalyze /\ WF_vars(CanvasEncodes) /\ WF_vars(ImageLoads)

\* --------------------------------------------- one analysis, any response
\* the first click on the analyze button
FirstAnalyzeClick ==
  /\ runs = <<>>
  /\ AnalyzeClick

AnyResponseArrives ==
  \E i \in 1..Len(runs), o \in AllOutcomes : FetchSettles(i, o)

\* the page of v1 with the rear camera running and a frame decoded, with one
\* of the initAI files
InitNormalize ==
  /\ variant = "v1"
  /\ supported = TRUE
  /\ timer = "fired"
  /\ usingRearCamera = RearPage.usingRearCamera
  /\ currentStream = RearPage.currentStream
  /\ srcObject = RearPage.srcObject
  /\ mirrored = RearPage.mirrored
  /\ status = RearPage.status
  /\ retryDisplay = RearPage.retryDisplay
  /\ switchDisplay = RearPage.switchDisplay
  /\ analyzeListeners = RearPage.analyzeListeners
  /\ streams = RearPage.streams
  /\ inv = <<>>
  /\ \E d \in AnalyzeDims : videoWidth = d[1] /\ videoHeight = d[2]
  /\ analyzeModule \in AnalyzeModules
  /\ captureModule = CaptureModuleOf(analyzeModule)
  /\ captured = NoCapture
  /\ analyzeBtnDisabled = FALSE
  /\ aiResponse = ""
  /\ runs = <<>>
  /\ imageLoad = "none"
  /\ mainVideoDisplay = "block"
  /\ thumbnailSrcObject = NoStream
  /\ capturedImageSrc = 0
  /\ proxyModule = "part_001"
  /\ reqs = <<>>
  /\ rearCamera = NotConstructed

NextNormalize ==
  \/ FirstAnalyzeClick
  \/ CanvasEncodes
  \/ ImageLoads
  \/ AnyResponseArrives

SpecNormalize == InitNormalize /\ [][NextNormalize]_vars

\* ------------------------------------------------------------ vision proxy
\* requests the proxy receives in one run
MaxReqs == 2

\* The handlers: unnamed/part_001 lines 34-249 (multipart and JSON) and
\* lines 254-354 (JSON only, answers {result}); unnamed/part_000 (JSON only);
\* the Express routes of unnamed/part_005 lines 11-51 (no checks) and lines
\* 66-173.
VercelModules == {"part_001", "part_001/json", "part_000"}
ExpressModules == {"part_005", "part_005/checked"}
ProxyModules == VercelModules \cup ExpressModules

\* the server-side programs: the handlers and the key test script
\* unnamed/part_006
ServerPrograms == ProxyModules \cup {"part_006"}

\* process.env.OPENAI_API_KEY, as its first twelve characters and the rest
apiKey == <<"sk-proj-AAAA", "BBBBBBBB">>

\* Image strings, as the pieces the handlers look at.  A data URL begins
\* with 'data:image'; bare base64 does not.  <<>> is a missing or empty
\* imageData (both are falsy).
Base64 == <<"AAAA">>
JpegPrefix == <<"data:image", "/jpeg;base64,">>
ImageStrings ==
  {<<>>, Base64, JpegPrefix \o Base64, <<"data:image", "/png;base64,">> \o Base64}

\* A JSON body may hold an imageData that is not a string, {"imageData": 42}:
\* the value is truthy and has no substring or startsWith method.
NotAString == <<"42 (a number)">>
isString(imageData) == imageData # NotAString
ImageValues == ImageStrings \cup {NotAString}

\* imageData.startsWith('data:image')
startsWithDataImage(x) == Len(x) > 0 /\ x[1] = "data:image"

\* the content types a request may carry; "" is a request without the header
ContentTypes ==
  {"multipart/form-data", "application/json", "text/plain",
   "application/x-www-form-urlencoded", ""}

\* What multiparty finds in a multipart body: "image" one file part named
\* image, "images" two of them, "other" one file part under another name,
\* "nofile" no file part, "malformed" a body the parse fails on.
Uploads == {"image", "images", "other", "nofile", "malformed"}

\* A POST as the handler sees it: req.method, req.headers['content-type'],
\* whether req.body can be destructured (it cannot when the body is absent,
\* is the JSON null or was not parsed), req.body.imageData, and the upload
\* of a multipart body.  imageData is a property of a parsed JSON or form
\* body only.
PostRequests ==
  {r \in [method : {"POST"}, contentType : ContentTypes,
          hasBody : BOOLEAN, imageData : ImageValues,
          upload : {"-"} \cup Uploads] :
     /\ (r.upload # "-") <=> (r.contentType = "multipart/form-data")
     /\ ~isString(r.imageData) => r.contentType = "application/json"
     /\ r.imageData # <<>>
        => /\ r.hasBody
           /\ r.contentType \in {"application/json",
                                 "application/x-www-form-urlencoded"}}

\* requests with another method: one without a body, one with a JSON body
\* that holds an image, one with an upload
GetRequests ==
  {[r EXCEPT !.method = "GET"] :
     r \in {p \in PostRequests :
              \/ p.contentType = "" /\ ~p.hasBody
              \/ p.contentType = "application/json" /\ p.imageData = Base64
              \/ p.upload = "image" /\ ~p.hasBody}}

Requests == PostRequests \cup GetRequests

\* the script of unnamed/part_006 takes no request
NoRequest ==
  [method |-> "-", contentType |-> "", hasBody |-> FALSE, imageData |-> <<>>,
   upload |-> "-"]

\* A JSON body of a 200 answer; Undefined is a property the body lacks.
NoJson ==
  [version |-> Undefined, primary |-> Undefined, content |-> Undefined,
   format |-> Undefined, text |-> Undefined, result |-> Undefined,
   provider |-> Undefined]

\* part_001 lines 182-209, part_000 lines 105-132
Envelope(analysisText) ==
  [version |-> "1.0", primary |-> "text", content |-> analysisText,
   format |-> "plain_text", text |-> analysisText, result |-> analysisText,
   provider |-> Undefined]

NoResponse ==
  [status |-> 0, error |-> "-", message |-> "-", details |-> "-",
   body |-> NoJson]

\* res.status(code).json({error, message})
Respond(code, error, message) ==
  [status |-> code, error |-> error, message |-> message, details |-> "-",
   body |-> NoJson]

SupportedFormats == "Supported formats are multipart/form-data or application/json"

\* the request payload of axios.post: the image reference and the header
\* that carries the key
requestPayload(url) ==
  [url |-> url, authorization |-> <<"Bearer ">> \o apiKey]

\* a normalization that would synthesize the prefix without looking at the
\* input
processedImageData_AlwaysPrefix(imageData) == JpegPrefix \o imageData

\* lines 109-120 of part_001 (32-43 of part_000, 84-94 of part_005):
\* bare base64 is given the JPEG data-URL prefix
processedImageData(imageData) ==
  IF startsWithDataImage(imageData) THEN imageData ELSE JpegPrefix \o imageData

\* The state of one request in the handler: where it is, the payloads sent
\* to the remote model, the last answer and the number of answers sent, the
\* temporary files on disk, what the file read and the remote call came to,
\* and the console lines written.
NewReq(r) ==
  [input |-> r, pc |-> "received", outbound |-> <<>>, response |-> NoResponse,
   tempFiles |-> {}, read |-> "-", remote |-> "-", logs |-> <<>>, sent |-> 0]

\* the handler has answered
Answer(q, resp) ==
  [q EXCEPT !.pc = "done", !.response = resp, !.sent = @ + 1]

\* console.log('OpenAI API Key present:', !!process.env.OPENAI_API_KEY)
\* (part_001 line 130, part_000 line 53)
keyPresenceLog(module) ==
  IF module \in {"part_001", "part_000"}
  THEN <<<<"OpenAI API Key present:", "true">>>>
  ELSE <<>>

\* the handler calls the remote model and waits
Forward(module, q, url) ==
  [q EXCEPT !.pc = "calling", !.outbound = @ \o <<requestPayload(url)>>,
            !.logs = @ \o keyPresenceLog(module)]

\* a TypeError thrown inside the try block, as the catch block answers it
TypeErrorAnswer(module) ==
  IF module \in ExpressModules
  THEN Respond(500, "Failed to analyze image", "TypeError")
  ELSE Respond(500, "Failed to analyze image: TypeError", "-")

\* unnamed/part_001 lines 43-165, the try block up to its first wait
tryBlock_part_001(r) ==
  LET q == NewReq(r)
  IN  IF r.contentType = "multipart/form-data"
      THEN [q EXCEPT !.pc = "parsing"]
      ELSE IF r.contentType = "application/json"
      THEN IF ~r.hasBody THEN Answer(q, TypeErrorAnswer("part_001"))
           ELSE IF r.imageData = <<>>
           THEN Answer(q, Respond(400, "No image data provided in request body", "-"))
           ELSE IF ~isString(r.imageData)
           THEN Answer(q, TypeErrorAnswer("part_001"))
           ELSE Forward("part_001", q, processedImageData(r.imageData))
      ELSE Answer(q, Respond(400, "Unsupported content type", SupportedFormats))

\* unnamed/part_001 lines 34-165, from the request to the first wait
handler_part_001(r) ==
  IF r.method # "POST"
  THEN Answer(NewReq(r), Respond(405, "Method not allowed", "-"))
  ELSE tryBlock_part_001(r)

\* unnamed/part_000 lines 10-88 and unnamed/part_001 lines 254-323: the
\* body is destructured whatever the content type, and imageData.substring
\* throws when imageData is not a string
handler_json(module, r) ==
  LET q == NewReq(r)
  IN  IF r.method # "POST" THEN Answer(q, Respond(405, "Method not allowed", "-"))
      ELSE IF ~r.hasBody THEN Answer(q, TypeErrorAnswer(module))
      ELSE IF r.imageData = <<>>
      THEN Answer(q, Respond(400, "No image data provided", "-"))
      ELSE IF ~isString(r.imageData) THEN Answer(q, TypeErrorAnswer(module))
      ELSE Forward(module, q, processedImageData(r.imageData))

\* unnamed/part_005 lines 11-37: imageData goes into the payload as it came
handler_part_005(r) == Forward("part_005", NewReq(r), r.imageData)

\* unnamed/part_005 lines 66-148
handler_part_005_checked(r) ==
  LET q == NewReq(r)
  IN  IF r.imageData = <<>>
      THEN Answer(q, Respond(400, "No image data provided", "-"))
      ELSE IF ~isString(r.imageData)
      THEN Answer(q, TypeErrorAnswer("part_005/checked"))
      ELSE Forward("part_005/checked", q, processedImageData(r.imageData))

\* a handler that would keep a failure of an earlier request in module
\* state and answer from it
handler_Remembering(module, r) ==
  IF \E i \in 1..Len(reqs) : reqs[i].response.status >= 400
  THEN Answer(NewReq(r), Respond(500, "Failed to analyze image", "-"))
  ELSE handler_json(module, r)

handler(module, r) ==
  IF module = "part_001" THEN handler_part_001(r)
  ELSE IF module = "part_005" THEN handler_part_005(r)
  ELSE IF module = "part_005/checked" THEN handler_part_005_checked(r)
  ELSE handler_json(module, r)

\* The requests that reach the handler.  Express routes POST only, and
\* express.json() leaves req.body an object ({} unless the body is JSON).
\* The Vercel runtime parses JSON, form-encoded and text bodies and leaves
\* req.body undefined for a multipart body or a request without a content
\* type; a JSON body may still be absent or null.
Reaches(module, r) ==
  IF module \in ExpressModules
  THEN /\ r.method = "POST"
       /\ r.hasBody
       /\ r.imageData # <<>> => r.contentType = "application/json"
  ELSE /\ r.contentType \in {"", "multipart/form-data"} => ~r.hasBody
       /\ r.contentType \in {"text/plain", "application/x-www-form-urlencoded"}
          => r.hasBody

\* a request arrives and the handler runs to its first wait or to its answer
Receive(r) ==
  /\ proxyModule \in ProxyModules
  /\ Len(reqs) < MaxReqs
  /\ Reaches(proxyModule, r)
  /\ reqs' = Append(reqs, handler(proxyModule, r))
  /\ UNCHANGED proxyModule
  /\ UNCHANGED <<mainVars, captureVars, analyzeVars, rearCamera>>

\* the files multiparty has written to the temporary directory when its
\* parse of the upload ends: one for every file part
partsWritten(upload) ==
  IF upload = "image" THEN {"image[0]"}
  ELSE IF upload = "images" THEN {"image[0]", "image[1]"}
  ELSE IF upload = "other" THEN {"photo[0]"}
  ELSE {}

\* part_001 lines 52-59: parseFormData has ended for request i
ParseCompletes(i) ==
  /\ reqs[i].pc = "parsing"
  /\ reqs' = [reqs EXCEPT ![i] =
       IF reqs[i].input.upload = "malformed"
       THEN Answer(@, Respond(400, "Error processing image upload", "-"))
       ELSE IF reqs[i].input.upload \notin {"image", "images"}
       THEN Answer([@ EXCEPT !.tempFiles = partsWritten(reqs[i].input.upload)],
                   Respond(400, "No image file provided in FormData", "-"))
       ELSE [@ EXCEPT !.pc = "reading",
                      !.tempFiles = partsWritten(reqs[i].input.upload)]]
  /\ UNCHANGED proxyModule
  /\ UNCHANGED <<mainVars, captureVars, analyzeVars, rearCamera>>

\* part_001 lines 66-76 and 103-165: convertFileToBase64 has ended.  Read:
\* the data URL is built, fs.unlinkSync removes the file of files.image[0]
\* and the remote model is called.  Not read: the inner catch answers 400.
ReadCompletes(i, ok) ==
  /\ reqs[i].pc = "reading"
  /\ reqs' = [reqs EXCEPT ![i] =
       IF ok
       THEN Forward("part_001",
                    [@ EXCEPT !.tempFiles = @ \ {"image[0]"}, !.read = "ok"],
                    processedImageData(JpegPrefix \o Base64))
       ELSE Answer([@ EXCEPT !.read = "failed"],
                   Respond(400, "Error processing image upload", "-"))]
  /\ UNCHANGED proxyModule
  /\ UNCHANGED <<mainVars, captureVars, analyzeVars, rearCamera>>

\* response.data.choices[0].message.content of an "ok" answer;
\* error.response.status and error.response.data of a "status" answer
RemoteContent == "A cat on a sofa."
RemoteStatus == "401"
RemoteBody == "{error: {code: 'invalid_api_key'}}"

\* How axios.post ends: "ok" a 2xx with choices[0].message.content, "odd" a
\* 2xx without choices[0].message, "nocontent" a 2xx whose choices[0].message
\* has no content, "status" a non-2xx (error.response is set), "timeout"
\* the 30000 ms timeout (ECONNABORTED), "network" any other failure.
RemoteAnswers == {"ok", "odd", "nocontent", "status", "timeout", "network"}

\* response.data.choices[0].message.content as the handler reads it
contentOf(ans) == IF ans = "ok" THEN RemoteContent ELSE Undefined


\* error.message as axios or the handler sets it
errorMessage(module, ans) ==
  IF ans = "status" THEN "Request failed with status code " \o RemoteStatus
  ELSE IF ans = "timeout" THEN "timeout of 30000ms exceeded"
  ELSE IF ans = "network" THEN "Network Error"
  ELSE IF module = "part_005" THEN "TypeError"
  ELSE "Unexpected response structure from OpenAI API"

\* the route of part_005 lines 11-51 passes no timeout to axios
HasTimeout(module) == module # "part_005"

\* the answer for an axios.post that ended with ans
remoteResponse(module, ans) ==
  IF ans \in {"ok", "nocontent"}
  THEN [NoResponse EXCEPT
          !.status = 200,
          !.body = IF module \in {"part_001", "part_000"}
                   THEN Envelope(contentOf(ans))
                   ELSE IF module = "part_001/json"
                   THEN [NoJson EXCEPT !.result = contentOf(ans)]
                   ELSE [NoJson EXCEPT !.text = contentOf(ans),
                                       !.provider = "openai"]]
  ELSE IF module \in ExpressModules
  THEN Respond(500, "Failed to analyze image", errorMessage(module, ans))
  ELSE IF module = "part_001/json"
  THEN Respond(500, "Failed to analyze image: " \o errorMessage(module, ans), "-")
  ELSE IF ans = "status"
  THEN [Respond(500, "OpenAI API error (" \o RemoteStatus \o "): " \o RemoteBody, "-")
          EXCEPT !.details = RemoteBody]
  ELSE IF ans = "timeout"
  THEN Respond(500, "Request to OpenAI timed out.", "Try with a smaller image or retry later.")
  ELSE Respond(500, "Failed to analyze image: " \o errorMessage(module, ans), "-")

\* console.error('Error details:', error.response.data)
errorLog(module, ans) ==
  IF ans = "status" /\ module \in VercelModules
  THEN <<<<"Error details:", RemoteBody>>>>
  ELSE <<>>

\* the call to the remote model of request i ends and the handler answers
RemoteAnswer(i, ans) ==
  /\ proxyModule \in ProxyModules
  /\ reqs[i].pc = "calling"
  /\ ans = "timeout" => HasTimeout(proxyModule)
  /\ reqs' = [reqs EXCEPT ![i] =
       Answer([@ EXCEPT !.remote = ans, !.logs = @ \o errorLog(proxyModule, ans)],
              remoteResponse(proxyModule, ans))]
  /\ UNCHANGED proxyModule
  /\ UNCHANGED <<mainVars, captureVars, analyzeVars, rearCamera>>

\* unnamed/part_006 lines 5-30: the script reads the key, writes its first
\* twelve characters to the console and calls the remote model
TestApiKeyStarts ==
  /\ proxyModule = "part_006"
  /\ Len(reqs) < MaxReqs
  /\ reqs' = Append(reqs,
       [NewReq(NoRequest) EXCEPT
          !.pc = "calling",
          !.outbound = <<requestPayload(<<>>)>>,
          !.logs = <<<<"Testing OpenAI API key: ", apiKey[1], "...">>>>])
  /\ UNCHANGED proxyModule
  /\ UNCHANGED <<mainVars, captureVars, analyzeVars, rearCamera>>

\* unnamed/part_006 lines 32-54: the script's call ends; it answers no one
TestApiKeyEnds(i, ans) ==
  /\ proxyModule = "part_006"
  /\ reqs[i].pc = "calling"
  /\ ans # "timeout"
  /\ reqs' = [reqs EXCEPT ![i] =
       [@ EXCEPT !.pc = "done", !.remote = ans,
                 !.logs = @ \o (IF ans = "status"
                                THEN <<<<"Error details:", RemoteBody>>>>
                                ELSE <<>>)]]
  /\ UNCHANGED proxyModule
  /\ UNCHANGED <<mainVars, captureVars, analyzeVars, rearCamera>>

RequestArrives == \E r \in Requests : Receive(r)
MultipartParsed == \E i \in 1..Len(reqs) : ParseCompletes(i)
FileRead == \E i \in 1..Len(reqs), ok \in BOOLEAN : ReadCompletes(i, ok)
RemoteModelAnswers ==
  \E i \in 1..Len(reqs), ans \in RemoteAnswers : RemoteAnswer(i, ans)
KeyTestCalls ==
  \E i \in 1..Len(reqs), ans \in RemoteAnswers : TestApiKeyEnds(i, ans)

\* a deployed handler that has received nothing yet
InitProxy ==
  /\ variant = "v1"
  /\ supported = TRUE
  /\ timer = "armed"
  /\ usingRearCamera = CONFIG.startWithRearCamera
  /\ currentStream = NoStream
  /\ srcObject = NoStream
  /\ mirrored = FALSE
  /\ status = [text |-> "Initializing camera... Please wait.", type |-> "info",
               className |-> "status", display |-> ""]
  /\ retryDisplay = "none"
  /\ switchDisplay = "flex"
  /\ analyzeListeners = 0
  /\ streams = <<>>
  /\ inv = <<>>
  /\ videoWidth = 0
  /\ videoHeight = 0
  /\ captureModule = "camera-capture.js"
  /\ captured = NoCapture
  /\ analyzeModule = "ai-integration.js"
  /\ analyzeBtnDisabled = FALSE
  /\ aiResponse = ""
  /\ runs = <<>>
  /\ imageLoad = "none"
  /\ mainVideoDisplay = "block"
  /\ thumbnailSrcObject = NoStream
  /\ capturedImageSrc = 0
  /\ proxyModule \in ServerPrograms
  /\ reqs = <<>>
  /\ rearCamera = NotConstructed

NextProxy ==
  \/ RequestArrives
  \/ MultipartParsed
  \/ FileRead
  \/ RemoteModelAnswers
  \/ TestApiKeyStarts
  \/ KeyTestCalls

SpecProxy == InitProxy /\ [][NextProxy]_vars

\* ------------------------------------------------- examples/rear-camera.js
\* calls of initialize and switchCamera made on the instance in one run
MaxCalls == 3

\* the options a page may construct the instance with (lines 25-32)
RearOptions ==
  [useFacingMode : {"environment", "user"}, mirrorFrontCamera : BOOLEAN,
   enableSwitching : BOOLEAN]

Toggle(mode) == IF mode = "environment" THEN "user" ELSE "environment"

\* _updateMirrorEffect, lines 211-217
updateMirrorEffect(c) ==
  [c EXCEPT !.transform =
     IF c.currentFacingMode = "user" /\ c.options.mirrorFrontCamera
     THEN "scaleX(-1)" ELSE "scaleX(1)"]

\* the constructor, lines 20-48.  stream and srcObject are 0 (null) or the
\* index in gum of a stream; gum is every stream getUserMedia has returned
\* to this instance; calls are the initialize and switchCamera calls made;
\* onloadedmetadata is the call whose resolver the video element holds and
\* metadataPending says the element owes a loadedmetadata event.
RearCameraNew(options) ==
  updateMirrorEffect(
    [constructed |-> TRUE, options |-> options, stream |-> 0,
     currentFacingMode |-> options.useFacingMode, isInitialized |-> FALSE,
     srcObject |-> 0, transform |-> "", onloadedmetadata |-> 0,
     metadataPending |-> FALSE, gum |-> <<>>, calls |-> <<>>])

\* the instance once a first initialize() has resolved true (lines 56-86):
\* the probe's stream and the stream of the constraints are live, the
\* latter is in this.stream and on the video element.  The completed call
\* is not kept in calls, and the resolver it left in onloadedmetadata does
\* nothing when it is run again.
RearCameraInitialized(options) ==
  [RearCameraNew(options) EXCEPT
     !.gum = <<[live |-> TRUE, facingMode |-> "any"],
               [live |-> TRUE, facingMode |-> options.useFacingMode]>>,
     !.stream = 2, !.srcObject = 2, !.isInitialized = TRUE]

\* stop, lines 138-148
stop(c) ==
  IF c.stream # 0
  THEN [c EXCEPT !.gum[c.stream].live = FALSE, !.srcObject = 0, !.stream = 0,
                 !.isInitialized = FALSE, !.metadataPending = FALSE]
  ELSE c

\* getUserMedia resolves with a new live stream
withNewStream(c, facingMode) ==
  [c EXCEPT !.gum = Append(@, [live |-> TRUE, facingMode |-> facingMode])]

\* call k has returned result; a switchCamera that awaits it (line 129)
\* returns false
RECURSIVE returns(_, _, _)
returns(c, k, result) ==
  LET d == [c EXCEPT !.calls[k].pc = "done", !.calls[k].result = result]
      p == c.calls[k].parent
  IN  IF p = 0 THEN d ELSE returns(d, p, FALSE)

\* initialize up to its first await (line 58): the permission probe
initialize(c, parent) ==
  [c EXCEPT !.calls = Append(@, [op |-> "initialize", pc |-> "probe",
                                 result |-> FALSE, parent |-> parent,
                                 facingMode |-> "-", playOn |-> 0])]

\* switchCamera up to its first await, lines 97-114
switchCamera(c) ==
  LET k == Len(c.calls) + 1
      call == [op |-> "switchCamera", pc |-> "acquire", result |-> FALSE,
               parent |-> 0, facingMode |-> Toggle(c.currentFacingMode),
               playOn |-> 0]
  IN  IF ~c.isInitialized \/ ~c.options.enableSwitching
      THEN [c EXCEPT !.calls = Append(@, [call EXCEPT !.pc = "done"])]
      ELSE [stop(c) EXCEPT !.currentFacingMode = Toggle(@),
                           !.calls = Append(@, call)]

\* the page calls initialize()
InitializeCalled ==
  /\ Len(rearCamera.calls) < MaxCalls
  /\ rearCamera' = initialize(rearCamera, 0)
  /\ UNCHANGED <<mainVars, captureVars, analyzeVars, proxyVars>>

\* the page calls switchCamera()
SwitchCameraCalled ==
  /\ Len(rearCamera.calls) < MaxCalls
  /\ rearCamera' = switchCamera(rearCamera)
  /\ UNCHANGED <<mainVars, captureVars, analyzeVars, proxyVars>>

\* the page calls stop()
StopCalled ==
  /\ rearCamera.stream # 0
  /\ rearCamera' = stop(rearCamera)
  /\ UNCHANGED <<mainVars, captureVars, analyzeVars, proxyVars>>

\* lines 58-66: getUserMedia({video: true}) of initialize call k settles.
\* The stream it resolves with is not assigned to anything.
ProbeSettles(k, ok) ==
  /\ rearCamera.calls[k].pc = "probe"
  /\ rearCamera' =
       IF ok
       THEN [withNewStream(rearCamera, "any") EXCEPT !.calls[k].pc = "enumerate"]
       ELSE returns(rearCamera, k, FALSE)
  /\ UNCHANGED <<mainVars, captureVars, analyzeVars, proxyVars>>

\* lines 61-66: enumerateDevices settles; the constraints are built from
\* currentFacingMode and getUserMedia is called with them
EnumerateSettles(k, ok) ==
  /\ rearCamera.calls[k].pc = "enumerate"
  /\ rearCamera' =
       IF ok
       THEN [rearCamera EXCEPT !.calls[k].pc = "acquire",
                               !.calls[k].facingMode = rearCamera.currentFacingMode]
       ELSE returns(rearCamera, k, FALSE)
  /\ UNCHANGED <<mainVars, captureVars, analyzeVars, proxyVars>>

\* the new stream is assigned to this.stream and to the video element
\* (lines 66-69 and 114-117); what this.stream held is not stopped here
attach(c, facingMode) ==
  LET d == withNewStream(c, facingMode)
  IN  [d EXCEPT !.stream = Len(d.gum), !.srcObject = Len(d.gum),
                !.metadataPending = TRUE]

\* getUserMedia(constraints) of call k settles.  initialize (lines 66-76)
\* attaches the stream and waits for loadedmetadata; switchCamera (lines
\* 114-132) attaches it, updates the mirroring and returns true, or on a
\* failure toggles the facing mode back and awaits this.initialize().
AcquireSettles(k, ok) ==
  /\ rearCamera.calls[k].pc = "acquire"
  /\ LET call == rearCamera.calls[k]
     IN  rearCamera' =
           IF call.op = "initialize"
           THEN IF ok
                THEN [attach(rearCamera, call.facingMode) EXCEPT
                        !.onloadedmetadata = k, !.calls[k].pc = "metadata"]
                ELSE returns(rearCamera, k, FALSE)
           ELSE IF ok
                THEN returns(updateMirrorEffect(attach(rearCamera, call.facingMode)),
                             k, TRUE)
                ELSE initialize([rearCamera EXCEPT
                                   !.currentFacingMode = Toggle(@),
                                   !.calls[k].pc = "restoring"], k)
  /\ UNCHANGED <<mainVars, captureVars, analyzeVars, proxyVars>>

\* the video element fires loadedmetadata for the stream it was given and
\* runs the onloadedmetadata it holds; the initialize call that set it
\* goes on to videoElement.play() (lines 72-79); playOn is the stream the
\* element plays
MetadataLoads ==
  /\ rearCamera.metadataPending
  /\ LET k == rearCamera.onloadedmetadata
     IN  rearCamera' =
           IF k # 0 /\ rearCamera.calls[k].pc = "metadata"
           THEN [rearCamera EXCEPT !.metadataPending = FALSE,
                                   !.calls[k].pc = "play",
                                   !.calls[k].playOn = rearCamera.srcObject]
           ELSE [rearCamera EXCEPT !.metadataPending = FALSE]
  /\ UNCHANGED <<mainVars, captureVars, analyzeVars, proxyVars>>

\* lines 79-89: play() of initialize call k settles.  An assignment to
\* srcObject (lines 69, 117 and 144) makes the element load anew, which
\* rejects the play() promises that are pending: play() resolves only while
\* the element still holds the stream it was called on.
PlaySettles(k, ok) ==
  /\ rearCamera.calls[k].pc = "play"
  /\ ok => rearCamera.srcObject = rearCamera.calls[k].playOn
  /\ rearCamera' =
       IF ok
       THEN returns([rearCamera EXCEPT !.isInitialized = TRUE], k, TRUE)
       ELSE returns(rearCamera, k, FALSE)
  /\ UNCHANGED <<mainVars, captureVars, analyzeVars, proxyVars>>

Calls == 1..Len(rearCamera.calls)

ProbeResolves == \E k \in Calls, ok \in BOOLEAN : ProbeSettles(k, ok)
DevicesEnumerated == \E k \in Calls, ok \in BOOLEAN : EnumerateSettles(k, ok)
StreamAcquired == \E k \in Calls, ok \in BOOLEAN : AcquireSettles(k, ok)
PlayStarts == \E k \in Calls, ok \in BOOLEAN : PlaySettles(k, ok)

\* a page that has constructed a RearCamera on its video element
InitRear ==
  /\ variant = "v1"
  /\ supported = TRUE
  /\ timer = "armed"
  /\ usingRearCamera = CONFIG.startWithRearCamera
  /\ currentStream = NoStream
  /\ srcObject = NoStream
  /\ mirrored = FALSE
  /\ status = [text |-> "Initializing camera... Please wait.", type |-> "info",
               className |-> "status", display |-> ""]
  /\ retryDisplay = "none"
  /\ switchDisplay = "flex"
  /\ analyzeListeners = 0
  /\ streams = <<>>
  /\ inv = <<>>
  /\ videoWidth = 0
  /\ videoHeight = 0
  /\ captureModule = "camera-capture.js"
  /\ captured = NoCapture
  /\ analyzeModule = "ai-integration.js"
  /\ analyzeBtnDisabled = FALSE
  /\ aiResponse = ""
  /\ runs = <<>>
  /\ imageLoad = "none"
  /\ mainVideoDisplay = "block"
  /\ thumbnailSrcObject = NoStream
  /\ capturedImageSrc = 0
  /\ proxyModule = "part_001"
  /\ reqs = <<>>
  /\ rearCamera \in {RearCameraNew(o) : o \in RearOptions}

NextRear ==
  \/ InitializeCalled
  \/ SwitchCameraCalled
  \/ StopCalled
  \/ ProbeResolves
  \/ DevicesEnumerated
  \/ StreamAcquired
  \/ MetadataLoads
  \/ PlayStarts

SpecRear == InitRear /\ [][NextRear]_vars

\* a page whose RearCamera has been initialized and lets the camera be
\* switched: the camera is in use
InitRearInUse ==
  /\ variant = "v1"
  /\ supported = TRUE
  /\ timer = "armed"
  /\ usingRearCamera = CONFIG.startWithRearCamera
  /\ currentStream = NoStream
  /\ srcObject = NoStream
  /\ mirrored = FALSE
  /\ status = [text |-> "Initializing camera... Please wait.", type |-> "info",
               className |-> "status", display |-> ""]
  /\ retryDisplay = "none"
  /\ switchDisplay = "flex"
  /\ analyzeListeners = 0
  /\ streams = <<>>
  /\ inv = <<>>
  /\ videoWidth = 0
  /\ videoHeight = 0
  /\ captureModule = "camera-capture.js"
  /\ captured = NoCapture
  /\ analyzeModule = "ai-integration.js"
  /\ analyzeBtnDisabled = FALSE
  /\ aiResponse = ""
  /\ runs = <<>>
  /\ imageLoad = "none"
  /\ mainVideoDisplay = "block"
  /\ thumbnailSrcObject = NoStream
  /\ capturedImageSrc = 0
  /\ proxyModule = "part_001"
  /\ reqs = <<>>
  /\ rearCamera \in {RearCameraInitialized(o) :
                       o \in {p \in RearOptions : p.enableSwitching}}

\* calls made on a camera that is in use
SpecRearInUse == InitRearInUse /\ [][NextRear]_vars

\* no initialize or switchCamera call is in progress
NoCallInProgress ==
  \A k \in 1..Len(rearCamera.calls) : rearCamera.calls[k].pc = "done"

\* C29: for a RearCamera, once the calls made on it have completed, every
\* stream getUserMedia returned other than the one in this.stream has been
\* stopped.  Stated of the states the instance is initialized in.
C29_OnlyHeldStreamLive ==
  (NoCallInProgress /\ rearCamera.isInitialized)
  => \A s \in 1..Len(rearCamera.gum) :
       rearCamera.gum[s].live => s = rearCamera.stream

\* ------------------------------------------- claims on the analyze handler
\* C11: a capture invoked while the sink's intrinsic width or height is zero
\* produces no image: captureFrame gives null without drawing or encoding,
\* the analyze handler sends no upload, shows 'Error: Unable to capture
\* image from camera.' and ends with the analyze button enabled.
C11_NoDimensionsNoImage ==
  /\ \A m \in CaptureModules, d \in Dims \cup {0} :
       /\ captureFrame(m, 0, d).kind = "null"
       /\ captureFrame(m, d, 0).kind = "null"
  /\ \A i \in 1..Len(runs) :
       (runs[i].width = 0 \/ runs[i].height = 0)
       => /\ runs[i].capture = "null"
          /\ ~runs[i].drawn
          /\ ~runs[i].sent
          /\ runs[i].pc = "done"
          /\ runs[i].shown = UnableText
          /\ ~runs[i].disabledAfter

\* C11 witness: the analyze button was clicked while a stream was bound but
\* no frame had decoded, and the failure is on display with the button
\* enabled
C11_Witness ==
  /\ srcObject # NoStream
  /\ videoWidth = 0
  /\ \E i \in 1..Len(runs) : runs[i].width = 0 /\ runs[i].pc = "done"
  /\ aiResponse = UnableText
  /\ ~analyzeBtnDisabled

\* the response has the new shape: modalities[primary].content is a
\* non-empty text
NewShape(result) ==
  /\ ~result.null
  /\ result.primary # Undefined
  /\ HasModality(result, result.primary)
  /\ Truthy(ContentOf(result, result.primary))

\* the text the fixed precedence selects from a response object
Precedence(result) ==
  IF NewShape(result) THEN ContentOf(result, result.primary)
  ELSE IF Truthy(result.text) THEN result.text
  ELSE IF Truthy(result.result) THEN result.result
  ELSE Sentinel

\* the handlers of unnamed/part_002, the initAI that knows both response
\* shapes, that have shown a parsed 2xx response
Shown ==
  {i \in 1..Len(runs) : /\ analyzeModule = "part_002"
                        /\ runs[i].pc = "done"
                        /\ runs[i].outcome.kind = "ok"}

\* C14: for every response object the client receives, the text displayed is
\* modalities[primary].content when present and non-empty, otherwise text,
\* otherwise result, otherwise 'No analysis text returned from the server.'
C14_DisplayPrecedence ==
  \A i \in Shown :
    ~runs[i].outcome.body.null
    => runs[i].shown = Precedence(runs[i].outcome.body)

\* the texts the handler's catch block shows
ErrorTexts ==
  {NullTypeError, ServerReturned(500), ServerReturned(400),
   "Error: Failed to fetch", "Error: Unexpected token in JSON"}

\* C15: normalizing a parsed 2xx response never ends in the error branch:
\* {text: X} shows X, {modalities: {text: {content: Y}}, primary: 'text'}
\* shows Y, and a response of neither shape, a null value included, shows
\* the sentinel.
C15_NormalizationNeverRaises ==
  \A i \in Shown :
    LET b == runs[i].outcome.body
    IN  /\ runs[i].shown \notin ErrorTexts
        /\ NewShape(b) => runs[i].shown = ContentOf(b, b.primary)
        /\ (~b.null /\ b.modalities = <<>> /\ Truthy(b.text))
           => runs[i].shown = b.text
        /\ (b.null \/ (b.modalities = <<>> /\ ~Truthy(b.text)))
           => runs[i].shown = Sentinel

\* the handlers whose upload has been sent and has not ended
InFlight == {i \in 1..Len(runs) : runs[i].pc = "fetching"}

\* C16: after any sequence of camera starts, camera switches and clicks on
\* the analyze button at most one analysis request is in flight, and once
\* every request has settled the response area shows the outcome of the
\* request that was started last.
C16_OneRequestInFlight ==
  /\ Cardinality(InFlight) <= 1
  /\ (runs # <<>> /\ \A i \in 1..Len(runs) : runs[i].pc = "done")
     => aiResponse = runs[Len(runs)].shown

\* the failures analyzeImage can end with that are not the proxy's timeout
NonTimeoutFailures ==
  {o \in HttpFailures \cup OtherFailures : o.cause # "timeout"}

\* the failure shown for the proxy's timeout differs from the one shown for
\* every other failure
TimeoutDistinct ==
  \A i \in 1..Len(runs) :
    (runs[i].pc = "done" /\ runs[i].outcome.cause = "timeout")
    => \A o \in NonTimeoutFailures :
         shownText(analyzeModule, o) # runs[i].shown

\* no request stays in flight for ever
EveryRequestEnds ==
  \A i \in 1..MaxRuns : [](i \in InFlight => <>(i \notin InFlight))

\* C17: an analysis whose round trip does not complete within the bounded
\* wait eventually fails, so no request stays in flight for ever; and the
\* failure shown for a timeout differs from the one shown for every other
\* kind of failure (network failure, non-2xx response, malformed JSON).
C17_TimeoutReported == EveryRequestEnds /\ []TimeoutDistinct

\* the camera session: the stream held, the stream bound to the sink, the
\* recorded facing mode, the mirroring and every stream's tracks
cameraSession ==
  <<currentStream, srcObject, usingRearCamera, mirrored, streams>>

\* C18: no step of an analyze request (the click, the encoder's callback,
\* the captured image's load, the end of the fetch with any outcome)
\* changes currentStream, the sink's stream, the recorded facing mode or
\* the mirroring, or stops a track.
C18_AnalysisLeavesCamera ==
  [][analyzeVars' # analyzeVars => cameraSession' = cameraSession]_vars

\* C18 witness: with a live stream bound, one analysis has failed on a
\* non-2xx response and another has ended after the still image replaced
\* the video or after a failed capture
C18_Witness ==
  /\ srcObject # NoStream
  /\ srcObject = currentStream
  /\ streams[srcObject].live
  /\ \E i \in 1..Len(runs) :
       runs[i].pc = "done" /\ runs[i].outcome.kind = "http"
  /\ \E i \in 1..Len(runs) :
       /\ runs[i].pc = "done"
       /\ \/ runs[i].capture = "null"
          \/ runs[i].outcome.kind = "ok" /\ imageLoad = "shown"

\* ----------------------------------------------------- claims on the proxy
\* C19: a POST whose content type is neither multipart/form-data nor
\* application/json is answered 400 with a body naming the two supported
\* formats, and no call to the remote model is made for it.  Stated of the
\* handlers of unnamed/part_001 (lines 34-249) and unnamed/part_000.
C19_UnsupportedContentType ==
  \A i \in 1..Len(reqs) :
    (/\ proxyModule \in {"part_001", "part_000"}
     /\ reqs[i].input.method = "POST"
     /\ reqs[i].input.contentType \notin {"multipart/form-data", "application/json"})
    => /\ reqs[i].outbound = <<>>
       /\ reqs[i].pc = "done"
       /\ reqs[i].response.status = 400
       /\ reqs[i].response.message = SupportedFormats

\* C20: the image reference of every payload forwarded to the remote model
\* begins with a data-URL prefix; bare base64 from the client is forwarded
\* with 'data:image/jpeg;base64,' put before it.  Stated of the handlers of
\* unnamed/part_001 (lines 34-249), unnamed/part_000 and unnamed/part_005
\* (lines 11-51), for the requests that supplied an image.
C20_OutboundCarriesPrefix ==
  \A i \in 1..Len(reqs) :
    (/\ proxyModule \in {"part_001", "part_000", "part_005"}
     /\ reqs[i].outbound # <<>>
     /\ reqs[i].input.imageData # <<>>)
    => /\ startsWithDataImage(reqs[i].outbound[1].url)
       /\ reqs[i].input.imageData = Base64
          => reqs[i].outbound[1].url = JpegPrefix \o Base64

\* C21: every 200 answer of the proxy is the full envelope: version '1.0',
\* primary 'text', modalities.text with format 'plain_text', and text and
\* result, the three contents being the same string.  Stated of the
\* handler of unnamed/part_001 (lines 34-249) and of the route of
\* unnamed/part_005 lines 66-173, for a remote reply that has a content.
C21_EveryOkIsEnvelope ==
  \A i \in 1..Len(reqs) :
    (proxyModule \in {"part_001", "part_005/checked"}
       /\ reqs[i].remote = "ok"
       /\ reqs[i].response.status = 200)
    => /\ reqs[i].response.body.content # Undefined
       /\ reqs[i].response.body = Envelope(reqs[i].response.body.content)

\* C22: when the handler of unnamed/part_001 has answered a multipart
\* request, no temporary file written while parsing its upload is left.
C22_NoTempFileOutlivesRequest ==
  \A i \in 1..Len(reqs) :
    (proxyModule = "part_001"
       /\ reqs[i].input.contentType = "multipart/form-data"
       /\ reqs[i].pc = "done")
    => reqs[i].tempFiles = {}

\* a POST of a supported content type without a usable image: no file part
\* named image, a body that is absent, or imageData absent or empty
MissingImage(r) ==
  /\ r.method = "POST"
  /\ \/ r.contentType = "multipart/form-data"
        /\ r.upload \in {"other", "nofile", "malformed"}
     \/ r.contentType = "application/json"
        /\ (~r.hasBody \/ r.imageData = <<>>)

\* C23: a request of a supported content type whose image is missing or
\* malformed is answered 400 and no call to the remote model is made for
\* it.  Stated of unnamed/part_001 (lines 34-249), unnamed/part_000 and the
\* route of unnamed/part_005 lines 66-173.
C23_MissingImageIs400 ==
  \A i \in 1..Len(reqs) :
    (proxyModule \in {"part_001", "part_000", "part_005/checked"}
       /\ MissingImage(reqs[i].input))
    => /\ reqs[i].outbound = <<>>
       /\ reqs[i].pc = "done" => reqs[i].response.status = 400

\* C24: when the remote model answers with an error of status s and body
\* b, the proxy answers 500 with an error text that holds s and b and with
\* details equal to b.  Stated of the two handlers of unnamed/part_001.
C24_RemoteErrorVerbatim ==
  \A i \in 1..Len(reqs) :
    (proxyModule \in {"part_001", "part_001/json"}
       /\ reqs[i].pc = "done" /\ reqs[i].remote = "status")
    => /\ reqs[i].response.status = 500
       /\ reqs[i].response.error =
            "OpenAI API error (" \o RemoteStatus \o "): " \o RemoteBody
       /\ reqs[i].response.details = RemoteBody

\* C25: a request whose method is not POST is answered 405 whatever its
\* content type and body; no call to the remote model is made for it and
\* no temporary file is written.
C25_OtherMethodsAre405 ==
  \A i \in 1..Len(reqs) :
    (proxyModule \in VercelModules /\ reqs[i].input.method # "POST")
    => /\ reqs[i].pc = "done"
       /\ reqs[i].response.status = 405
       /\ reqs[i].outbound = <<>>
       /\ reqs[i].tempFiles = {}

\* a GET that carries an upload has been answered by unnamed/part_001
C25_Witness ==
  /\ proxyModule = "part_001"
  /\ \E i \in 1..Len(reqs) :
       /\ reqs[i].input.method = "GET"
       /\ reqs[i].input.upload = "image"
       /\ reqs[i].response.status = 405

\* the pieces of the key
KeyPieces == {apiKey[k] : k \in 1..Len(apiKey)}

\* a console line that holds a piece of the key
HoldsKey(line) == \E k \in 1..Len(line) : line[k] \in KeyPieces

\* C26: in every server-side program the key goes into the Authorization
\* header of the outbound call only: no answer and no console line holds
\* the key or a part of it.
C26_KeyOnlyInAuthorization ==
  \A i \in 1..Len(reqs) :
    /\ \A k \in 1..Len(reqs[i].logs) : ~HoldsKey(reqs[i].logs[k])
    /\ reqs[i].response.error \notin KeyPieces
    /\ reqs[i].response.message \notin KeyPieces
    /\ reqs[i].response.details \notin KeyPieces

\* requests i and j were the same request and met the same file read and
\* the same remote answer
SameRequest(i, j) ==
  /\ reqs[i].input = reqs[j].input
  /\ reqs[i].read = reqs[j].read
  /\ reqs[i].remote = reqs[j].remote

Quiescent ==
  /\ \A i \in 1..Len(runs) : runs[i].pc = "done"
  /\ imageLoad # "loading"

\* C27: every object URL made for a captured image is revoked: in no
\* quiescent state is there an object URL that was created and not
\* revoked.  Stated of the handler of unnamed/part_002.
C27_ObjectUrlsRevoked ==
  (analyzeModule = "part_002" /\ Quiescent)
  => \A i \in 1..Len(runs) : runs[i].url # "live"

\* C30: every run of the analyze click handler ends with the button
\* enabled: whenever the button is disabled it is enabled again later.
C30_ButtonEnabledAgain == [](analyzeBtnDisabled => <>(~analyzeBtnDisabled))

\* when no run of the handler is waiting the button is enabled
NoRunNoDisabledButton ==
  (\A i \in 1..Len(runs) : runs[i].pc = "done") => ~analyzeBtnDisabled

\* -------------------------------------------- claims on the page, continued
\* C31: however many times the camera has been acquired, the analyze button
\* has at most one click listener, and a click runs one handler: one
\* capture and one upload.
C31_OneClickOneUpload ==
  /\ analyzeListeners <= 1
  /\ \A i \in 1..Len(runs) : runs[i].listener = 1

\* C32: whenever a stream is bound to the sink, usingRearCamera and the
\* sink's 'mirrored' class are those of the facing mode that stream was
\* requested with, under every interleaving of startCamera invocations.
\* Stated of the copies that call updateMirroringState.
C32_FacingMatchesBoundStream ==
  (CallsUpdateMirroring(variant) /\ srcObject # NoStream)
  => /\ usingRearCamera = streams[srcObject].rear
     /\ mirrored = (~streams[srcObject].rear /\ CONFIG.mirrorFrontCamera)

\* C33: the retry button is not visible, with an error status, while a live
\* stream is bound to the sink.
C33_NoRetryWhileLive ==
  (retryDisplay # "none" /\ status.type = "error")
  => ~(srcObject # NoStream /\ streams[srcObject].live)

\* ------------------------------------------- claims on the proxy, continued
\* the request passes the handler's input validation
PassesValidation(module, r) ==
  /\ r.method = "POST"
  /\ \/ /\ r.hasBody /\ r.imageData # <<>>
        /\ module = "part_001" => r.contentType = "application/json"
     \/ /\ module = "part_001"
        /\ r.contentType = "multipart/form-data"
        /\ r.upload \in {"image", "images"}

\* C34: every invocation of the handler sends one answer, never two, and
\* makes at most one call to the remote model: one when the request passes
\* the input validation, none when it is answered 400 or 405.  Stated of
\* unnamed/part_001 (lines 34-249) and unnamed/part_000.
C34_OneAnswerOneCall ==
  \A i \in 1..Len(reqs) :
    proxyModule \in {"part_001", "part_000"}
    => /\ reqs[i].sent = (IF reqs[i].pc = "done" THEN 1 ELSE 0)
       /\ Len(reqs[i].outbound) <= 1
       /\ reqs[i].response.status \in {400, 405} => reqs[i].outbound = <<>>
       /\ (/\ PassesValidation(proxyModule, reqs[i].input)
           /\ reqs[i].pc \in {"calling", "done"}
           /\ reqs[i].read # "failed")
          => Len(reqs[i].outbound) = 1

\* C35: the proxy answers 200 only for a remote reply that has
\* choices[0].message, with that message's content as the returned text; a
\* 2xx reply of another structure, a message without content included, is
\* answered 500.  Stated of unnamed/part_001 (lines 34-249), part_000 and
\* the route of part_005 lines 11-51.
C35_OkOnlyWithContent ==
  \A i \in 1..Len(reqs) :
    (proxyModule \in {"part_001", "part_000", "part_005"} /\ reqs[i].pc = "done")
    => /\ reqs[i].response.status = 200
          => /\ reqs[i].remote = "ok"
             /\ reqs[i].response.body.text = RemoteContent
       /\ reqs[i].remote \in {"odd", "nocontent"}
          => reqs[i].response.status = 500

\* C36: the normalization of the image leaves a data URL as it is and,
\* applied twice, gives what it gives applied once; a request whose
\* imageData is a data URL is forwarded with that very string.  Stated of
\* the strings a body may hold and of the requests the normalizing handlers
\* have forwarded.
C36_NormalizationIdempotent ==
  /\ \A x \in ImageStrings :
       /\ startsWithDataImage(x) => processedImageData(x) = x
       /\ processedImageData(processedImageData(x)) = processedImageData(x)
  /\ \A i \in 1..Len(reqs) :
       (proxyModule \in {"part_001", "part_000"} /\ reqs[i].outbound # <<>>)
       => LET url == reqs[i].outbound[1].url
              imageData == reqs[i].input.imageData
          IN  /\ processedImageData(url) = url
              /\ reqs[i].input.contentType # "multipart/form-data"
                 => /\ url = processedImageData(imageData)
                    /\ startsWithDataImage(imageData) => url = imageData

\* a PNG data URL and a bare base64 string were both forwarded
C36_Witness ==
  /\ proxyModule = "part_001"
  /\ \E i, j \in 1..Len(reqs) :
       /\ reqs[i].input.imageData = <<"data:image", "/png;base64,">> \o Base64
       /\ reqs[i].outbound # <<>>
       /\ reqs[i].outbound[1].url = reqs[i].input.imageData
       /\ reqs[j].input.imageData = Base64
       /\ reqs[j].outbound # <<>>
       /\ reqs[j].outbound[1].url = JpegPrefix \o Base64

\* ------------------------------------------------ claims on capture, continued
\* C37: for non-zero intrinsic dimensions (w, h) and size = min(w, h), the
\* square that capture takes from the frame starts at ((w - size) / 2,
\* (h - size) / 2), lies inside the frame, and leaves equal margins on
\* opposite sides.  startX2 and startY2 are twice startX and startY.
C37_CropCentredInsideFrame ==
  (captureModule \in SquareModules /\ captured.size > 0)
  => LET w == captured.srcWidth
         h == captured.srcHeight
         size == captured.size
         right2 == captured.startX2 + 2 * size
         bottom2 == captured.startY2 + 2 * size
     IN  /\ w > 0 /\ h > 0
         /\ size = Min(w, h)
         /\ captured.startX2 = w - size
         /\ captured.startY2 = h - size
         /\ 0 <= captured.startX2 /\ 0 <= captured.startY2
         /\ right2 <= 2 * w /\ bottom2 <= 2 * h
         /\ captured.startX2 = 2 * w - right2
         /\ captured.startY2 = 2 * h - bottom2

\* a landscape frame whose crop starts at a half pixel, and was encoded
C37_Witness ==
  /\ captureModule = "camera-capture.js"
  /\ captured.kind = "blob"
  /\ captured.srcWidth = 801 /\ captured.srcHeight = 480
  /\ captured.startX2 = 321 /\ captured.startY2 = 0

\* ------------------------------------------ claims on RearCamera, continued
\* C38: for a RearCamera, whenever no initialize or switchCamera call is in
\* progress (after construction and after each call has completed, whether
\* it succeeded or failed), the video element is mirrored (scaleX(-1)) if
\* and only if currentFacingMode is 'user' and options.mirrorFrontCamera.
C38_MirroredIffFrontAndOption ==
  NoCallInProgress
  => ((rearCamera.transform = "scaleX(-1)")
      <=> (rearCamera.currentFacingMode = "user"
           /\ rearCamera.options.mirrorFrontCamera))

\* C39: initialize resolves true exactly when the camera was initialized:
\* on true a live stream is in this.stream and on the video element and
\* isInitialized is true; on false isInitialized is false and the instance
\* holds no live stream.  Stated of the step in which the only call made on
\* the instance, an initialize, returns.
C39_ResultTellsState ==
  [][(/\ Len(rearCamera.calls) = 1
      /\ rearCamera.calls[1].op = "initialize"
      /\ rearCamera.calls[1].pc # "done"
      /\ rearCamera'.calls[1].pc = "done")
     => LET c == rearCamera'
            holdsLive == c.stream # 0 /\ c.gum[c.stream].live
        IN  IF c.calls[1].result
            THEN c.isInitialized /\ holdsLive /\ c.srcObject = c.stream
            ELSE ~c.isInitialized /\ ~holdsLive]_vars

\* ------------------------------------------- claims on the thumbnail video
\* C40: whenever the captured still is displayed and the thumbnail video has
\* a stream, that stream is the one bound to the main video and is live,
\* also after a camera switch made while the still is displayed.
C40_ThumbnailShowsBoundStream ==
  (imageLoad = "shown" /\ thumbnailSrcObject # NoStream)
  => /\ thumbnailSrcObject = srcObject
     /\ streams[thumbnailSrcObject].live

====
